---- MODULE Spec2Model ----
(***************************************************************************)
(* Model of rdbdiff: the generic schema-object comparator                  *)
(* (compareSchemaObjects) and the comparison engine of class Diff          *)
(* (compare, compareTables, compareIndex, compareProcedures,               *)
(* compareFunctions) of src/src/diff.ts, with the part of the CLI compare  *)
(* action of src/src/cli.ts that consumes the result.                      *)
(*                                                                         *)
(* JavaScript values are modelled as tagged records [t, s, o]:             *)
(*   t  the tag ("undefined", "null", "string", "number", "boolean",       *)
(*      "object"),                                                         *)
(*   s  the characters of a scalar (a sequence of one-character strings;   *)
(*      a token without whitespace is one symbol),                         *)
(*   o  the properties of an object, a sequence of <<key, value>> pairs in *)
(*      insertion order, which is the order Object.keys and Set iterate.   *)
(***************************************************************************)
EXTENDS Integers, Sequences, FiniteSets, TLC

VARIABLES
    schemaA,     \* A.schema, the InformationSchema loaded from dbURL1
    schemaB,     \* B.schema, the InformationSchema loaded from dbURL2
    options,     \* the ComparisonOptions given to both Diff objects
    cliOpts,     \* the flags of the compare command (-o, -p, -t, -a, -w)
    pc,          \* position of the compare action
    diff,        \* const diff = A.compare(B)
    written,     \* what the action wrote to the output file
    printed,     \* what the action printed to the console
    exitCode,    \* the code given to process.exit, or "none"
    callArgs,    \* the arguments of a call of compareSchemaObjects on its own
    returned,    \* what that call returned
    calls,       \* the results of the calls of compare made so far
    args,        \* the protocols of dbURL1 and dbURL2, or "invalid"
    catalog,     \* what the catalogs of the two databases hold
    loads,       \* the state of the promises A.load() and B.load()
    error,       \* the error the action was rejected with, or "none"
    awaiter      \* the current call of the test helper awaiter

vars == <<schemaA, schemaB, options, cliOpts, pc, diff, written, printed, exitCode,
          callArgs, returned, calls, args, catalog, loads, error, awaiter>>

-----------------------------------------------------------------------------
(* JavaScript values *)

Undefined == [t |-> "undefined", s |-> <<>>, o |-> <<>>]
Null == [t |-> "null", s |-> <<>>, o |-> <<>>]
Str(chars) == [t |-> "string", s |-> chars, o |-> <<>>]
Tok(x) == [t |-> "string", s |-> <<x>>, o |-> <<>>]
Num(x) == [t |-> "number", s |-> <<x>>, o |-> <<>>]
Bool(x) == [t |-> "boolean", s |-> <<x>>, o |-> <<>>]
Obj(props) == [t |-> "object", s |-> <<>>, o |-> props]

\* typeof v: null is an "object" for typeof
TypeOf(v) == IF v.t = "null" THEN "object" ELSE v.t

\* Object.keys(m) of the properties m
Keys(m) == [i \in 1..Len(m) |-> m[i][1]]

KeySet(m) == {m[i][1] : i \in 1..Len(m)}

\* obj[key]: the value of the property, undefined when there is none
Get(v, key) ==
    IF \E i \in 1..Len(v.o) : v.o[i][1] = key
    THEN v.o[CHOOSE i \in 1..Len(v.o) : v.o[i][1] = key][2]
    ELSE Undefined

\* _A || {} : an undefined (falsy) argument counts as the empty object
OrEmpty(v) == IF v.t = "object" THEN v ELSE Obj(<<>>)

-----------------------------------------------------------------------------
(* compareSchemaObjects *)

Whitespace == {" ", "\t", "\n"}

\* the last index of the run of whitespace characters that starts at i
RECURSIVE RunEnd(_, _)
RunEnd(chars, i) ==
    IF i < Len(chars) /\ chars[i + 1] \in Whitespace
    THEN RunEnd(chars, i + 1)
    ELSE i

\* str.replace(/([\s]{2,}|\t|\n)/g, " "), scanning from index i: a run of two
\* or more whitespace characters, or else a single tab or newline, becomes
\* one space
RECURSIVE ReplaceFrom(_, _)
ReplaceFrom(chars, i) ==
    IF i > Len(chars) THEN <<>>
    ELSE IF chars[i] \in Whitespace /\ i < Len(chars) /\ chars[i + 1] \in Whitespace
    THEN <<" ">> \o ReplaceFrom(chars, RunEnd(chars, i) + 1)
    ELSE IF chars[i] \in {"\t", "\n"}
    THEN <<" ">> \o ReplaceFrom(chars, i + 1)
    ELSE <<chars[i]>> \o ReplaceFrom(chars, i + 1)

\* an option that was not given
NoValue == "undefined"

\* the options object of a compareSchemaObjects call
Options(in, name, remarks, whitespaces) ==
    [in |-> in, name |-> name, remarks |-> remarks, whitespaces |-> whitespaces]

NoOptions == Options(NoValue, NoValue, NoValue, NoValue)

\* valueA / valueB: the property, with its whitespace replaced when it is a
\* string and options.whitespaces == false
PropValue(v, opts) ==
    IF TypeOf(v) = "string" /\ opts.whitespaces = "false"
    THEN Str(ReplaceFrom(v.s, 1))
    ELSE v

\* new Set([...Object.keys(A), ...Object.keys(B)]): the keys of A in their
\* order, then the keys of B that A does not have, in their order
AllProps(A, B) ==
    Keys(A.o) \o SelectSeq(Keys(B.o), LAMBDA k : k \notin KeySet(A.o))

\* CompareProp with the remarks of a property that A lacks given the wrong
\* way round
CompareProp_RemarksSwapped(objectType, A, B, opts, prop, acc) ==
    LET valueA == PropValue(Get(A, prop), opts)
        valueB == PropValue(Get(B, prop), opts)
        Entry(a, b) ==
            [objectType |-> objectType,
             name |-> IF opts.name # NoValue THEN opts.name ELSE prop,
             in |-> opts.in,
             A |-> a,
             B |-> b]
        Remark(r) == IF opts.remarks # NoValue THEN opts.remarks ELSE r
    IN  IF valueA = Undefined
        THEN [acc EXCEPT !.diff = Append(@, Entry(Remark("exist"), Remark("missing")))]
        ELSE IF valueB = Undefined
        THEN [acc EXCEPT !.diff = Append(@, Entry(Remark("exist"), Remark("missing")))]
        ELSE IF /\ TypeOf(valueA) # "object"
                /\ TypeOf(valueB) # "object"
                /\ valueA # valueB
        THEN [acc EXCEPT !.diff = Append(@, Entry("mismatch", "mismatch"))]
        ELSE [acc EXCEPT !.nodiffKeys = Append(@, prop)]

\* CompareProp without the typeof test: valueA !== valueB alone, under which
\* two objects are never the same object
CompareProp_ObjectsByReference(objectType, A, B, opts, prop, acc) ==
    LET valueA == PropValue(Get(A, prop), opts)
        valueB == PropValue(Get(B, prop), opts)
        Entry(a, b) ==
            [objectType |-> objectType,
             name |-> IF opts.name # NoValue THEN opts.name ELSE prop,
             in |-> opts.in,
             A |-> a,
             B |-> b]
        Remark(r) == IF opts.remarks # NoValue THEN opts.remarks ELSE r
    IN  IF valueA = Undefined
        THEN [acc EXCEPT !.diff = Append(@, Entry(Remark("missing"), Remark("exist")))]
        ELSE IF valueB = Undefined
        THEN [acc EXCEPT !.diff = Append(@, Entry(Remark("exist"), Remark("missing")))]
        ELSE IF valueA.t = "object" \/ valueB.t = "object" \/ valueA # valueB
        THEN [acc EXCEPT !.diff = Append(@, Entry("mismatch", "mismatch"))]
        ELSE [acc EXCEPT !.nodiffKeys = Append(@, prop)]

\* CompareProp that looks into two nested objects: those of different
\* contents are a mismatch
CompareProp_Deep(objectType, A, B, opts, prop, acc) ==
    LET valueA == PropValue(Get(A, prop), opts)
        valueB == PropValue(Get(B, prop), opts)
        Entry(a, b) ==
            [objectType |-> objectType,
             name |-> IF opts.name # NoValue THEN opts.name ELSE prop,
             in |-> opts.in,
             A |-> a,
             B |-> b]
        Remark(r) == IF opts.remarks # NoValue THEN opts.remarks ELSE r
    IN  IF valueA = Undefined
        THEN [acc EXCEPT !.diff = Append(@, Entry(Remark("missing"), Remark("exist")))]
        ELSE IF valueB = Undefined
        THEN [acc EXCEPT !.diff = Append(@, Entry(Remark("exist"), Remark("missing")))]
        ELSE IF /\ TypeOf(valueA) = TypeOf(valueB)
                /\ valueA.t # "null"
                /\ valueB.t # "null"
                /\ valueA # valueB
        THEN [acc EXCEPT !.diff = Append(@, Entry("mismatch", "mismatch"))]
        ELSE [acc EXCEPT !.nodiffKeys = Append(@, prop)]

\* CompareProp that uses options.remarks for the remark of A only
CompareProp_RemarkOnA(objectType, A, B, opts, prop, acc) ==
    LET valueA == PropValue(Get(A, prop), opts)
        valueB == PropValue(Get(B, prop), opts)
        Entry(a, b) ==
            [objectType |-> objectType,
             name |-> IF opts.name # NoValue THEN opts.name ELSE prop,
             in |-> opts.in,
             A |-> a,
             B |-> b]
        Remark(r) == IF opts.remarks # NoValue THEN opts.remarks ELSE r
    IN  IF valueA = Undefined
        THEN [acc EXCEPT !.diff = Append(@, Entry(Remark("missing"), "exist"))]
        ELSE IF valueB = Undefined
        THEN [acc EXCEPT !.diff = Append(@, Entry(Remark("exist"), "missing"))]
        ELSE IF /\ TypeOf(valueA) # "object"
                /\ TypeOf(valueB) # "object"
                /\ valueA # valueB
        THEN [acc EXCEPT !.diff = Append(@, Entry("mismatch", "mismatch"))]
        ELSE [acc EXCEPT !.nodiffKeys = Append(@, prop)]

\* one iteration of the for loop: the diff and nodiffKeys after prop
CompareProp(objectType, A, B, opts, prop, acc) ==
    LET valueA == PropValue(Get(A, prop), opts)
        valueB == PropValue(Get(B, prop), opts)
        Entry(a, b) ==
            [objectType |-> objectType,
             name |-> IF opts.name # NoValue THEN opts.name ELSE prop,
             in |-> opts.in,
             A |-> a,
             B |-> b]
        Remark(r) == IF opts.remarks # NoValue THEN opts.remarks ELSE r
    IN  IF valueA = Undefined
        THEN [acc EXCEPT !.diff = Append(@, Entry(Remark("missing"), Remark("exist")))]
        ELSE IF valueB = Undefined
        THEN [acc EXCEPT !.diff = Append(@, Entry(Remark("exist"), Remark("missing")))]
        ELSE IF /\ TypeOf(valueA) # "object"
                /\ TypeOf(valueB) # "object"
                /\ valueA # valueB
        THEN [acc EXCEPT !.diff = Append(@, Entry("mismatch", "mismatch"))]
        ELSE [acc EXCEPT !.nodiffKeys = Append(@, prop)]

\* the for loop over allProps without its break
RECURSIVE ComparePropsFrom_NoBreak(_, _, _, _, _, _, _)
ComparePropsFrom_NoBreak(objectType, A, B, opts, props, i, acc) ==
    IF i > Len(props) THEN acc
    ELSE ComparePropsFrom_NoBreak(objectType, A, B, opts, props, i + 1,
             CompareProp(objectType, A, B, opts, props[i], acc))

\* the for loop over allProps from index i, with its break
RECURSIVE ComparePropsFrom(_, _, _, _, _, _, _)
ComparePropsFrom(objectType, A, B, opts, props, i, acc) ==
    IF i > Len(props) THEN acc
    ELSE LET next == CompareProp(objectType, A, B, opts, props[i], acc)
         IN  IF opts.name # NoValue /\ Len(next.diff) > 0
             THEN next
             ELSE ComparePropsFrom(objectType, A, B, opts, props, i + 1, next)

\* compareSchemaObjects(objectType, _A, _B, options): [diff, nodiffKeys]
compareSchemaObjects(objectType, _A, _B, opts) ==
    LET A == OrEmpty(_A)
        B == OrEmpty(_B)
    IN  ComparePropsFrom(objectType, A, B, opts, AllProps(A, B), 1,
                         [diff |-> <<>>, nodiffKeys |-> <<>>])

-----------------------------------------------------------------------------
(* class Diff: the four passes and compare.  this and other are the schema  *)
(* fields of the two Diff objects, co the comparisonOptions of this.        *)

\* the inner loop of compareTables over allColumns from index i
RECURSIVE CompareColumnsFrom(_, _, _, _, _, _)
CompareColumnsFrom(this, other, co, table, allColumns, i) ==
    IF i > Len(allColumns) THEN <<>>
    ELSE LET column == allColumns[i]
             mismatchedColumns ==
                 compareSchemaObjects("table.column",
                     Get(Get(Get(this.tables, table), "columns"), column),
                     Get(Get(Get(other.tables, table), "columns"), column),
                     Options(table, column, NoValue, NoValue)).diff
         IN  IF Len(mismatchedColumns) > 0 /\ ~co.eager
             THEN mismatchedColumns
             ELSE mismatchedColumns
                      \o CompareColumnsFrom(this, other, co, table, allColumns, i + 1)

\* the body of the loop of compareTables for one table of allTables
CompareTableColumns(this, other, co, table) ==
    LET missing ==
            compareSchemaObjects("table.column",
                Get(Get(this.tables, table), "columns"),
                Get(Get(this.tables, table), "columns"),
                Options(table, NoValue, NoValue, NoValue))
    IN  IF Len(missing.diff) > 0 /\ ~co.eager
        THEN missing.diff
        ELSE missing.diff
                 \o CompareColumnsFrom(this, other, co, table, missing.nodiffKeys, 1)

\* the loop of compareTables that compares the fields of the two table
\* entries before their columns
RECURSIVE CompareTablesFrom_WithEngine(_, _, _, _, _)
CompareTablesFrom_WithEngine(this, other, co, allTables, i) ==
    IF i > Len(allTables) THEN <<>>
    ELSE compareSchemaObjects("table",
             Get(this.tables, allTables[i]), Get(other.tables, allTables[i]),
             Options(NoValue, allTables[i], NoValue, NoValue)).diff
             \o CompareTableColumns(this, other, co, allTables[i])
             \o CompareTablesFrom_WithEngine(this, other, co, allTables, i + 1)

\* the loop of compareTables over allTables from index i
RECURSIVE CompareTablesFrom(_, _, _, _, _)
CompareTablesFrom(this, other, co, allTables, i) ==
    IF i > Len(allTables) THEN <<>>
    ELSE CompareTableColumns(this, other, co, allTables[i])
             \o CompareTablesFrom(this, other, co, allTables, i + 1)

compareTables(this, other, co) ==
    LET missingTable ==
            compareSchemaObjects("table", this.tables, other.tables, NoOptions)
    IN  missingTable.diff
            \o CompareTablesFrom(this, other, co, missingTable.nodiffKeys, 1)

\* the innermost loop of compareIndex over the columns of one index
RECURSIVE CompareIndexColumnsFrom(_, _, _, _, _, _)
CompareIndexColumnsFrom(this, other, table, key_name, allColumns, i) ==
    IF i > Len(allColumns) THEN <<>>
    ELSE LET column == allColumns[i]
             mismatchedColumns ==
                 compareSchemaObjects("index",
                     Get(Get(Get(this.indexes, table), key_name), column),
                     Get(Get(Get(other.indexes, table), key_name), column),
                     Options(table, key_name, "mismatch", NoValue)).diff
         IN  IF Len(mismatchedColumns) > 0
             THEN mismatchedColumns
             ELSE CompareIndexColumnsFrom(this, other, table, key_name, allColumns, i + 1)

\* the loop of compareIndex over allIndexes of one table from index i
RECURSIVE CompareIndexesFrom(_, _, _, _, _)
CompareIndexesFrom(this, other, table, allIndexes, i) ==
    IF i > Len(allIndexes) THEN <<>>
    ELSE LET key_name == allIndexes[i]
             missingColumns ==
                 compareSchemaObjects("index",
                     Get(Get(this.indexes, table), key_name),
                     Get(Get(other.indexes, table), key_name),
                     Options(table, key_name, "mismatch", NoValue))
         IN  IF Len(missingColumns.diff) > 0
             THEN missingColumns.diff
             ELSE CompareIndexColumnsFrom(this, other, table, key_name,
                                          missingColumns.nodiffKeys, 1)
                      \o CompareIndexesFrom(this, other, table, allIndexes, i + 1)

\* CompareTableIndexes without the test of the two tables: the indexes of a
\* table that one side lacks are compared with the empty object
CompareTableIndexes_MissingTableToo(this, other, table) ==
    LET missingIndexes ==
            compareSchemaObjects("index",
                Get(this.indexes, table),
                Get(other.indexes, table),
                Options(table, NoValue, NoValue, NoValue))
    IN  IF Len(missingIndexes.diff) > 0
        THEN missingIndexes.diff
        ELSE CompareIndexesFrom(this, other, table, missingIndexes.nodiffKeys, 1)

\* CompareTableIndexes without the continue after the missing indexes: the
\* indexes of both sides are compared all the same
CompareTableIndexes_NoSkip(this, other, table) ==
    IF Get(this.tables, table) = Undefined \/ Get(other.tables, table) = Undefined
    THEN <<>>
    ELSE LET missingIndexes ==
                 compareSchemaObjects("index",
                     Get(this.indexes, table),
                     Get(other.indexes, table),
                     Options(table, NoValue, NoValue, NoValue))
         IN  missingIndexes.diff
                 \o CompareIndexesFrom(this, other, table, missingIndexes.nodiffKeys, 1)

\* the body of the loop of compareIndex for one table
CompareTableIndexes(this, other, table) ==
    IF Get(this.tables, table) = Undefined \/ Get(other.tables, table) = Undefined
    THEN <<>>
    ELSE LET missingIndexes ==
                 compareSchemaObjects("index",
                     Get(this.indexes, table),
                     Get(other.indexes, table),
                     Options(table, NoValue, NoValue, NoValue))
         IN  IF Len(missingIndexes.diff) > 0
             THEN missingIndexes.diff
             ELSE CompareIndexesFrom(this, other, table, missingIndexes.nodiffKeys, 1)

RECURSIVE CompareIndexTablesFrom(_, _, _, _)
CompareIndexTablesFrom(this, other, allTables, i) ==
    IF i > Len(allTables) THEN <<>>
    ELSE CompareTableIndexes(this, other, allTables[i])
             \o CompareIndexTablesFrom(this, other, allTables, i + 1)

compareIndex(this, other, co) ==
    CompareIndexTablesFrom(this, other, AllProps(this.tables, other.tables), 1)

\* the parameter loop of compareProcedures with its break under eager
RECURSIVE CompareProcParamsFrom_StopsWhenEager(_, _, _, _, _, _)
CompareProcParamsFrom_StopsWhenEager(thisProc, otherProc, co, procName, allParams, i) ==
    IF i > Len(allParams) THEN <<>>
    ELSE LET paramName == allParams[i]
             mismatchParams ==
                 compareSchemaObjects("procedure.parameter",
                     Get(Get(thisProc, "parameters"), paramName),
                     Get(Get(otherProc, "parameters"), paramName),
                     Options(procName, paramName, "mismatch", NoValue)).diff
         IN  IF Len(mismatchParams) > 0 /\ co.eager
             THEN mismatchParams
             ELSE mismatchParams
                      \o CompareProcParamsFrom_StopsWhenEager(thisProc, otherProc, co,
                                                              procName, allParams, i + 1)

\* the parameter loop of compareProcedures over allParams from index i
RECURSIVE CompareProcParamsFrom(_, _, _, _, _, _)
CompareProcParamsFrom(thisProc, otherProc, co, procName, allParams, i) ==
    IF i > Len(allParams) THEN <<>>
    ELSE LET paramName == allParams[i]
             mismatchParams ==
                 compareSchemaObjects("procedure.parameter",
                     Get(Get(thisProc, "parameters"), paramName),
                     Get(Get(otherProc, "parameters"), paramName),
                     Options(procName, paramName, "mismatch", NoValue)).diff
         IN  IF Len(mismatchParams) > 0 /\ ~co.eager
             THEN mismatchParams
             ELSE mismatchParams
                      \o CompareProcParamsFrom(thisProc, otherProc, co, procName,
                                               allParams, i + 1)

\* CompareProcedure that skips the parameters of both sides after a missing
\* parameter whatever eager is
CompareProcedure_SkipWhenEager(thisProc, otherProc, co, procName) ==
    LET mistmatchBody ==
            compareSchemaObjects("procedure", thisProc, otherProc,
                Options("definition", procName, NoValue,
                        co.whitespaces)).diff
        missingParams ==
            compareSchemaObjects("procedure.parameter",
                Get(thisProc, "parameters"),
                Get(otherProc, "parameters"),
                Options(procName, NoValue, NoValue, NoValue))
    IN  mistmatchBody
            \o (IF Len(missingParams.diff) > 0
                THEN missingParams.diff
                ELSE CompareProcParamsFrom(thisProc, otherProc, co, procName,
                                           missingParams.nodiffKeys, 1))

\* CompareProcedure with the difference of the body pushed after those of
\* the parameters
CompareProcedure_BodyLast(thisProc, otherProc, co, procName) ==
    LET mistmatchBody ==
            compareSchemaObjects("procedure", thisProc, otherProc,
                Options("definition", procName, NoValue,
                        co.whitespaces)).diff
        missingParams ==
            compareSchemaObjects("procedure.parameter",
                Get(thisProc, "parameters"),
                Get(otherProc, "parameters"),
                Options(procName, NoValue, NoValue, NoValue))
    IN  (IF Len(missingParams.diff) > 0 /\ ~co.eager
         THEN missingParams.diff
         ELSE missingParams.diff
                  \o CompareProcParamsFrom(thisProc, otherProc, co, procName,
                                           missingParams.nodiffKeys, 1))
            \o mistmatchBody

\* the body of the loop of compareProcedures: the body, then the parameters
CompareProcedure(thisProc, otherProc, co, procName) ==
    LET mistmatchBody ==
            compareSchemaObjects("procedure", thisProc, otherProc,
                Options("definition", procName, NoValue,
                        co.whitespaces)).diff
        missingParams ==
            compareSchemaObjects("procedure.parameter",
                Get(thisProc, "parameters"),
                Get(otherProc, "parameters"),
                Options(procName, NoValue, NoValue, NoValue))
    IN  mistmatchBody
            \o (IF Len(missingParams.diff) > 0 /\ ~co.eager
                THEN missingParams.diff
                ELSE missingParams.diff
                         \o CompareProcParamsFrom(thisProc, otherProc, co, procName,
                                                  missingParams.nodiffKeys, 1))

RECURSIVE CompareProceduresFrom(_, _, _, _, _)
CompareProceduresFrom(this, other, co, allStoredProcs, i) ==
    IF i > Len(allStoredProcs) THEN <<>>
    ELSE CompareProcedure(Get(this.procedures, allStoredProcs[i]),
                          Get(other.procedures, allStoredProcs[i]),
                          co, allStoredProcs[i])
             \o CompareProceduresFrom(this, other, co, allStoredProcs, i + 1)

compareProcedures(this, other, co) ==
    LET missing ==
            compareSchemaObjects("procedure", this.procedures, other.procedures,
                                 NoOptions)
    IN  missing.diff
            \o CompareProceduresFrom(this, other, co, missing.nodiffKeys, 1)

\* the parameter loop of compareFunctions over allParams from index i
RECURSIVE CompareFnParamsFrom(_, _, _, _, _, _)
CompareFnParamsFrom(thisProc, otherProc, co, fnName, allParams, i) ==
    IF i > Len(allParams) THEN <<>>
    ELSE LET paramName == allParams[i]
             mismatchParams ==
                 compareSchemaObjects("function.parameter",
                     Get(Get(thisProc, "parameters"), paramName),
                     Get(Get(otherProc, "parameters"), paramName),
                     Options(fnName, paramName, "mismatch", NoValue)).diff
         IN  IF Len(mismatchParams) > 0 /\ ~co.eager
             THEN mismatchParams
             ELSE mismatchParams
                      \o CompareFnParamsFrom(thisProc, otherProc, co, fnName,
                                             allParams, i + 1)

\* CompareFunction without the comparison of the body
CompareFunction_ParametersOnly(thisProc, otherProc, co, fnName) ==
    LET missingParams ==
            compareSchemaObjects("function.parameter",
                Get(thisProc, "parameters"),
                Get(otherProc, "parameters"),
                Options(fnName, NoValue, NoValue, NoValue))
    IN  IF Len(missingParams.diff) > 0 /\ ~co.eager
        THEN missingParams.diff
        ELSE missingParams.diff
                 \o CompareFnParamsFrom(thisProc, otherProc, co, fnName,
                                        missingParams.nodiffKeys, 1)

\* the body of the loop of compareFunctions: the body, then the parameters
CompareFunction(thisProc, otherProc, co, fnName) ==
    LET mistmatchBody ==
            compareSchemaObjects("function", thisProc, otherProc,
                Options("definition", fnName, NoValue,
                        co.whitespaces)).diff
        missingParams ==
            compareSchemaObjects("function.parameter",
                Get(thisProc, "parameters"),
                Get(otherProc, "parameters"),
                Options(fnName, NoValue, NoValue, NoValue))
    IN  mistmatchBody
            \o (IF Len(missingParams.diff) > 0 /\ ~co.eager
                THEN missingParams.diff
                ELSE missingParams.diff
                         \o CompareFnParamsFrom(thisProc, otherProc, co, fnName,
                                                missingParams.nodiffKeys, 1))

RECURSIVE CompareFunctionsFrom(_, _, _, _, _)
CompareFunctionsFrom(this, other, co, allStoredProcs, i) ==
    IF i > Len(allStoredProcs) THEN <<>>
    ELSE CompareFunction(Get(this.functions, allStoredProcs[i]),
                         Get(other.functions, allStoredProcs[i]),
                         co, allStoredProcs[i])
             \o CompareFunctionsFrom(this, other, co, allStoredProcs, i + 1)

compareFunctions(this, other, co) ==
    LET missing ==
            compareSchemaObjects("function", this.functions, other.functions,
                                 NoOptions)
    IN  missing.diff
            \o CompareFunctionsFrom(this, other, co, missing.nodiffKeys, 1)

\* compare with the routines before the tables and the indexes
compare_RoutinesFirst(this, other, co) ==
    compareProcedures(this, other, co)
        \o compareFunctions(this, other, co)
        \o compareTables(this, other, co)
        \o compareIndex(this, other, co)

\* compare(other): the four passes, concatenated
compare(this, other, co) ==
    compareTables(this, other, co)
        \o compareIndex(this, other, co)
        \o compareProcedures(this, other, co)
        \o compareFunctions(this, other, co)

-----------------------------------------------------------------------------
(* The rows the MySqlDiff queries return and the objects Diff.load builds   *)
(* from them.  The keys of an object are in the order of the rows.          *)

\* the decimal digits of a small number, as the JSON value holds it
Digits == <<"1", "2", "3", "4", "5", "6">>

\* a row of getColumns; the rows come ORDER BY ORDINAL_POSITION
ColumnRow(name, default, position) ==
    Obj(<< <<"name", Tok(name)>>,
           <<"type", Tok("int")>>,
           <<"default", default>>,
           <<"nullable", Tok("YES")>>,
           <<"key", Tok("")>>,
           <<"charMaxLength", Null>>,
           <<"ordinalPosition", Num(Digits[position])>> >>)

\* this.schema.tables[table.name] = { engine, columns }
TableEntry(engine, columns) ==
    Obj(<< <<"engine", Tok(engine)>>, <<"columns", Obj(columns)>> >>)

\* a row of getIndexes; row.Mon_unique is undefined, so isUnique is false
IndexRow(key_name, column, sequence_no) ==
    Obj(<< <<"key_name", Tok(key_name)>>,
           <<"isUnique", Bool("false")>>,
           <<"column", Tok(column)>>,
           <<"sequence_no", Num(Digits[sequence_no])>> >>)

\* a row of getStoredProcParams or getFunctionParams
ParamRow(name, position) ==
    Obj(<< <<"name", Tok(name)>>,
           <<"ordinal_position", Num(Digits[position])>>,
           <<"type", Tok("int")>>,
           <<"charMaxLength", Null>>,
           <<"mode", Tok("IN")>> >>)

\* a row of getStoredProcParams or getFunctionParams of a parameter of the
\* given DATA_TYPE; only a varchar has a CHARACTER_MAXIMUM_LENGTH
ParamRowOf(name, position, type) ==
    Obj(<< <<"name", Tok(name)>>,
           <<"ordinal_position", Num(Digits[position])>>,
           <<"type", Tok(type)>>,
           <<"charMaxLength", IF type = "varchar" THEN Num(Digits[5]) ELSE Null>>,
           <<"mode", Tok("IN")>> >>)

\* schema.procedures[proc.name] or schema.functions[proc.name]: the
\* definition, and the parameters by name
RoutineEntry(definition, params) ==
    Obj(<< <<"definition", definition>>, <<"parameters", Obj(params)>> >>)

\* the empty schema a Diff object is constructed with
EmptySchema ==
    [tables |-> Obj(<<>>), indexes |-> Obj(<<>>),
     procedures |-> Obj(<<>>), functions |-> Obj(<<>>)]

\* the sequences of at most n distinct elements of S
Arrangements(S, n) ==
    UNION {{a \in [1..k -> S] : \A i, j \in 1..k : a[i] = a[j] => i = j} : k \in 0..n}

-----------------------------------------------------------------------------
(* The compare action of the CLI, from the await of the two loads on *)

\* const diff = A.compare(B)
Compare ==
    /\ pc = "loaded"
    /\ diff' = compare(schemaA, schemaB, options)
    /\ pc' = "compared"
    /\ UNCHANGED <<schemaA, schemaB, options, cliOpts, written, printed, exitCode,
                   callArgs, returned,
                   calls, args, catalog, loads, error, awaiter>>

\* the output object: the result, with both schemas under -a
OutputOf(result) ==
    [result |-> result,
     schemas |-> IF cliOpts.all THEN <<schemaA, schemaB>> ELSE <<>>,
     indent |-> IF cliOpts.pretty THEN "2" ELSE "0"]

\* one call of a method of console with its argument
Console(call, arg) == [call |-> call, arg |-> arg]

\* under -o, console.log of the path and writeFileSync(outfile, ...);
\* console.log of the output otherwise
Output ==
    /\ pc = "compared"
    /\ IF cliOpts.outfile
       THEN /\ printed' = Append(printed, Console("log", [writing |-> "outfile"]))
            /\ written' = Append(written, OutputOf(diff))
       ELSE /\ printed' = Append(printed, Console("log", OutputOf(diff)))
            /\ UNCHANGED written
    /\ pc' = "output"
    /\ UNCHANGED <<schemaA, schemaB, options, cliOpts, diff, exitCode, callArgs, returned,
                   calls, args, catalog, loads, error, awaiter>>

\* what the exit code branch prints when diff.length: the count of the
\* issues, and the table of them under -t
Issues ==
    <<Console("error", [issues |-> Len(diff)])>>
        \o (IF cliOpts.outTable THEN <<Console("table", [rows |-> diff])>> ELSE <<>>)

\* an exit code branch in which the table of -t takes the place of the failure
Exit_TableInsteadOfFailure ==
    /\ pc = "output"
    /\ IF cliOpts.test
       THEN /\ pc' = "returned"
            /\ UNCHANGED <<exitCode, printed>>
       ELSE /\ pc' = "exited"
            /\ IF Len(diff) > 0
               THEN /\ printed' = printed \o Issues
                    /\ exitCode' = (IF cliOpts.outTable THEN "0" ELSE "1")
               ELSE /\ exitCode' = "0"
                    /\ UNCHANGED printed
    /\ UNCHANGED <<schemaA, schemaB, options, cliOpts, diff, written, callArgs, returned,
                   calls, args, catalog, loads, error, awaiter>>

\* return under NODE_ENV=test; otherwise process.exit(1) after the report of
\* the issues when diff.length, and process.exit(0) when not
Exit ==
    /\ pc = "output"
    /\ IF cliOpts.test
       THEN /\ pc' = "returned"
            /\ UNCHANGED <<exitCode, printed>>
       ELSE /\ pc' = "exited"
            /\ IF Len(diff) > 0
               THEN /\ printed' = printed \o Issues
                    /\ exitCode' = "1"
               ELSE /\ exitCode' = "0"
                    /\ UNCHANGED printed
    /\ UNCHANGED <<schemaA, schemaB, options, cliOpts, diff, written, callArgs, returned,
                   calls, args, catalog, loads, error, awaiter>>

Next == Compare \/ Output \/ Exit

\* no call of compareSchemaObjects on its own
NoCall == [objectType |-> "none", A |-> Undefined, B |-> Undefined, opts |-> NoOptions]

NoReturn == [diff |-> <<>>, nodiffKeys |-> <<>>]

\* compare was called once at most
NoCalls == <<>>

\* both URLs were parsed and are of the supported protocol
Supported == <<"mysql:", "mysql:">>

\* the promise of a load that has resolved after its queries
Resolved == [status |-> "resolved", queries |-> 0]

\* the test helper is not in use
NoAwaiter == [status |-> "none", interval |-> 0, timeout |-> 0, iter |-> 0, data |-> <<>>]

\* the state when both loads have resolved, for given schemas and flags
Loaded(A, B, co, cli) ==
    /\ schemaA = A
    /\ schemaB = B
    /\ options = co
    /\ cliOpts = cli
    /\ pc = "loaded"
    /\ diff = <<>>
    /\ written = <<>>
    /\ printed = <<>>
    /\ exitCode = "none"
    /\ callArgs = NoCall
    /\ returned = NoReturn
    /\ calls = NoCalls
    /\ args = Supported
    /\ catalog = [A |-> A, B |-> B]
    /\ loads = [A |-> Resolved, B |-> Resolved]
    /\ error = "none"
    /\ awaiter = NoAwaiter

-----------------------------------------------------------------------------
(* The schemas the checks start from *)

ColumnNames == {"id", "column1", "column2"}

MaxColumns == 3

\* COLUMN_DEFAULT: no default, or the text of the default
Defaults == {Null, Tok("0"), Tok("1")}

\* the columns objects load builds for a table of one to MaxColumns columns
ColumnMaps ==
    UNION {{[i \in 1..Len(a) |-> <<a[i], ColumnRow(a[i], d[i], i)>>] :
                d \in [1..Len(a) -> Defaults]} :
           a \in Arrangements(ColumnNames, MaxColumns) \ {<<>>}}

\* a schema of one table and no index
OneTable(table, columns) ==
    [EmptySchema EXCEPT
        !.tables = Obj(<< <<table, TableEntry("InnoDB", columns)>> >>),
        !.indexes = Obj(<< <<table, Obj(<<>>)>> >>)]

NoFlags == [outfile |-> FALSE, outTable |-> FALSE, pretty |-> FALSE,
            all |-> FALSE, w |-> FALSE, test |-> FALSE]

\* const whitespaces = opts["w"] || false, of the command with the option -w
WhitespacesShort(w) == IF w THEN "true" ELSE "false"

\* const { whitespaces } = opts, of the command with the option
\* -w, --whitespaces, which has no default: undefined without the flag
WhitespacesLong(w) == IF w THEN "true" ELSE NoValue

\* both databases hold the table t, with any columns
InitColumns ==
    \E ca \in ColumnMaps, cb \in ColumnMaps, eager \in BOOLEAN :
        Loaded(OneTable("t", ca), OneTable("t", cb),
               [eager |-> eager, verbose |-> FALSE, whitespaces |-> "false"],
               NoFlags)

SpecColumns == InitColumns /\ [][Next]_vars

NumTables == 2

TableNameList == <<"t1", "t2", "t3", "t4">>

TableNames == {TableNameList[i] : i \in 1..NumTables}

\* a table of the single column id, with any default
IdColumnMaps == {c \in ColumnMaps : Len(c) = 1 /\ c[1][1] = "id"}

\* the schemas of at most NumTables tables, each of the column id, without
\* indexes: load sets tables[name] and indexes[name] in the order of the rows
\* of getTables
TableSchemas ==
    UNION {{[EmptySchema EXCEPT
               !.tables = Obj([i \in 1..Len(a) |->
                                 <<a[i], TableEntry("InnoDB", c[i])>>]),
               !.indexes = Obj([i \in 1..Len(a) |-> <<a[i], Obj(<<>>)>>])] :
                c \in [1..Len(a) -> IdColumnMaps]} :
           a \in Arrangements(TableNames, NumTables)}

\* each database holds any of the tables
InitTables ==
    \E A \in TableSchemas, B \in TableSchemas, eager \in BOOLEAN :
        Loaded(A, B, [eager |-> eager, verbose |-> FALSE, whitespaces |-> "false"],
               NoFlags)

SpecTables == InitTables /\ [][Next]_vars

NumIndexes == 2

IndexNameList == <<"ix", "ux", "ix2", "ux2">>

IndexNames == {IndexNameList[i] : i \in 1..NumIndexes}

\* the columns of an index in the order of Seq_in_index: one column, or
\* two columns in either order
IndexColumnLists ==
    {<<"column1">>, <<"column1", "column2">>, <<"column2", "column1">>}

\* data[row.key_name][row.column] = row, for the rows of one index
IndexEntry(key_name, columns) ==
    Obj([i \in 1..Len(columns) |-> <<columns[i], IndexRow(key_name, columns[i], i)>>])

\* the indexes objects load builds for a table of at most NumIndexes indexes
IndexMaps ==
    UNION {{[i \in 1..Len(a) |-> <<a[i], IndexEntry(a[i], l[i])>>] :
                l \in [1..Len(a) -> IndexColumnLists]} :
           a \in Arrangements(IndexNames, NumIndexes)}

\* the columns of a table that has only its id
IdColumn == <<<<"id", ColumnRow("id", Null, 1)>>>>

\* a schema of one table with the given indexes
IndexedTable(table, indexes) ==
    [EmptySchema EXCEPT
        !.tables = Obj(<< <<table, TableEntry("InnoDB", IdColumn)>> >>),
        !.indexes = Obj(<< <<table, Obj(indexes)>> >>)]

\* both databases hold the same table t, with any indexes
InitIndex ==
    \E ia \in IndexMaps, ib \in IndexMaps, eager \in BOOLEAN :
        Loaded(IndexedTable("t", ia), IndexedTable("t", ib),
               [eager |-> eager, verbose |-> FALSE, whitespaces |-> "false"],
               NoFlags)

SpecIndex == InitIndex /\ [][Next]_vars

\* the flags -o, -t, -p, -a, -w of the command, and NODE_ENV=test or not
Flags == [outfile : BOOLEAN, outTable : BOOLEAN, pretty : BOOLEAN,
          all : BOOLEAN, w : BOOLEAN, test : BOOLEAN]

\* a database without tables, or with the table t of the column id
SmallSchemas == {EmptySchema} \cup {OneTable("t", c) : c \in IdColumnMaps}

\* the command run with any flags on two small databases
InitCli ==
    \E A \in SmallSchemas, B \in SmallSchemas, eager \in BOOLEAN, cli \in Flags :
        Loaded(A, B,
               [eager |-> eager, verbose |-> FALSE,
                whitespaces |-> WhitespacesShort(cli.w)],
               cli)

SpecCli == InitCli /\ [][Next]_vars

\* the indexes of a table without index, or with the index ix on one or on
\* two columns
OneIndexMaps ==
    {<<>>} \cup {<< <<"ix", IndexEntry("ix", l)>> >> :
                    l \in {<<"column1">>, <<"column1", "column2">>}}

\* the schemas of at most NumTables tables of the column id, each with its
\* indexes: load sets tables[name] and indexes[name] together
IndexedSchemas ==
    UNION {{[EmptySchema EXCEPT
               !.tables = Obj([i \in 1..Len(a) |->
                                 <<a[i], TableEntry("InnoDB", IdColumn)>>]),
               !.indexes = Obj([i \in 1..Len(a) |-> <<a[i], Obj(x[i])>>])] :
                x \in [1..Len(a) -> OneIndexMaps]} :
           a \in Arrangements(TableNames, NumTables)}

\* each database holds any of the tables, with any of the indexes
InitIndexedTables ==
    \E A \in IndexedSchemas, B \in IndexedSchemas, eager \in BOOLEAN :
        Loaded(A, B, [eager |-> eager, verbose |-> FALSE, whitespaces |-> "false"],
               NoFlags)

SpecIndexedTables == InitIndexedTables /\ [][Next]_vars

NumRoutines == 1

RoutineNameList == <<"r1", "r2", "r3">>

RoutineNames == {RoutineNameList[i] : i \in 1..NumRoutines}

MaxParams == 1

ParamNameList == <<"p_0", "p_1", "p_2">>

ParamNames == {ParamNameList[i] : i \in 1..MaxParams}

\* ROUTINE_DEFINITION: a body, with one space or with a space and a newline
RoutineDefinitions ==
    {Str(<<"BEGIN", " ", "END">>), Str(<<"BEGIN", " ", "\n", "END">>)}

\* the parameters objects load builds for a routine of at most MaxParams
\* parameters
ParamMaps ==
    {[i \in 1..Len(a) |-> <<a[i], ParamRow(a[i], i)>>] :
        a \in Arrangements(ParamNames, MaxParams)}

\* the procedures or functions load builds for at most NumRoutines routines
RoutineMaps ==
    UNION {{[i \in 1..Len(a) |-> <<a[i], RoutineEntry(d[i], p[i])>>] :
                d \in [1..Len(a) -> RoutineDefinitions],
                p \in [1..Len(a) -> ParamMaps]} :
           a \in Arrangements(RoutineNames, NumRoutines)}

WithRoutines(schema, procedures, functions) ==
    [schema EXCEPT !.procedures = Obj(procedures), !.functions = Obj(functions)]

\* documents of every kind of object: routines on a small database, which
\* are procedures, functions or both, indexes on one table, several tables
Documents ==
    {WithRoutines(S, r, r) : S \in SmallSchemas, r \in RoutineMaps}
        \cup {WithRoutines(S, r, <<>>) : S \in SmallSchemas, r \in RoutineMaps}
        \cup {WithRoutines(S, <<>>, r) : S \in SmallSchemas, r \in RoutineMaps}
        \cup {IndexedTable("t", ia) : ia \in IndexMaps}
        \cup TableSchemas

\* the object with its keys in the opposite order
Reversed(v) == Obj([i \in 1..Len(v.o) |-> v.o[Len(v.o) + 1 - i]])

\* the document of a database of the same objects whose catalog lists the
\* tables, the indexes of each table and the routines in the opposite order
Reordered(schema) ==
    [tables |-> Reversed(schema.tables),
     indexes |-> Reversed(Obj([i \in 1..Len(schema.indexes.o) |->
                    <<schema.indexes.o[i][1],
                      Reversed(schema.indexes.o[i][2])>>])),
     procedures |-> Reversed(schema.procedures),
     functions |-> Reversed(schema.functions)]

\* both databases hold the same objects, under any options
InitSame ==
    \E A \in Documents, eager \in BOOLEAN,
       whitespaces \in {"true", "false", NoValue} :
        \E B \in {A, Reordered(A)} :
            Loaded(A, B,
                   [eager |-> eager, verbose |-> FALSE, whitespaces |-> whitespaces],
                   NoFlags)

SpecSame == InitSame /\ [][Next]_vars

\* the table t of the column id, with a default 0 or 1 and the index ix on
\* one or on two columns
DriftingTables ==
    {[EmptySchema EXCEPT
        !.tables = Obj(<< <<"t", TableEntry("InnoDB",
                        << <<"id", ColumnRow("id", d, 1)>> >>)>> >>),
        !.indexes = Obj(<< <<"t", Obj(x)>> >>)] :
        d \in {Tok("0"), Tok("1")}, x \in OneIndexMaps \ {<<>>}}

\* no routine, or the routine r1 with either body, without parameter or with
\* the parameter p_0
SingleRoutineMaps ==
    {<<>>} \cup {<< <<"r1", RoutineEntry(d, p)>> >> :
                    d \in RoutineDefinitions,
                    p \in {<<>>, << <<"p_0", ParamRow("p_0", 1)>> >>}}

\* a database of the table t in which the routine is there as a procedure
\* and as a function
DocumentsOfAllKinds ==
    {WithRoutines(S, r, r) : S \in DriftingTables, r \in SingleRoutineMaps}

\* the two databases hold objects of every kind
InitAllKinds ==
    \E A \in DocumentsOfAllKinds, B \in DocumentsOfAllKinds, eager \in BOOLEAN :
        Loaded(A, B, [eager |-> eager, verbose |-> FALSE, whitespaces |-> "false"],
               NoFlags)

SpecAllKinds == InitAllKinds /\ [][Next]_vars

MaxSignature == 2

ParamTypes == {"int", "varchar"}

\* the elements of a set of numbers in increasing order
Ascending(S) ==
    [i \in 1..Cardinality(S) |->
        CHOOSE x \in S : Cardinality({y \in S : y < x}) = i - 1]

\* the parameters objects load builds for a routine that declares some of the
\* first MaxSignature parameter names, in this order, each of any type
Signatures ==
    UNION {{[i \in 1..Cardinality(S) |->
                <<ParamNameList[Ascending(S)[i]],
                  ParamRowOf(ParamNameList[Ascending(S)[i]], i, ty[i])>>] :
                ty \in [1..Cardinality(S) -> ParamTypes]} :
           S \in SUBSET (1..MaxSignature)}

\* ROUTINE_DEFINITION: the same body written with a space, a space and a
\* newline, or a tab, and another body
Bodies ==
    RoutineDefinitions
        \cup {Str(<<"BEGIN", "\t", "END">>),
              Str(<<"BEGIN", " ", "RETURN", " ", "END">>)}

\* no routine, or the routine r1 with any body and parameters
OneRoutineMaps ==
    {<<>>} \cup {<< <<"r1", RoutineEntry(b, s)>> >> : b \in Bodies, s \in Signatures}

\* the options of a run of the command, of either version, with or without
\* the flag -w
InitRoutines ==
    \E ra \in OneRoutineMaps, rb \in OneRoutineMaps, eager \in BOOLEAN, w \in BOOLEAN :
        \E whitespaces \in {WhitespacesShort(w), WhitespacesLong(w)} :
            Loaded(WithRoutines(EmptySchema, ra, ra), WithRoutines(EmptySchema, rb, rb),
                   [eager |-> eager, verbose |-> FALSE, whitespaces |-> whitespaces],
                   [NoFlags EXCEPT !.w = w])

SpecRoutines == InitRoutines /\ [][Next]_vars

\* no routine, or the routine r1 with one of two bodies and any parameters
SignedRoutineMaps ==
    {<<>>} \cup {<< <<"r1", RoutineEntry(b, s)>> >> :
                    b \in {Str(<<"BEGIN", " ", "END">>),
                           Str(<<"BEGIN", " ", "RETURN", " ", "END">>)},
                    s \in Signatures}

\* the command without -w on two databases of the routine r1, procedure and
\* function
InitSignatures ==
    \E ra \in SignedRoutineMaps, rb \in SignedRoutineMaps, eager \in BOOLEAN :
        Loaded(WithRoutines(EmptySchema, ra, ra), WithRoutines(EmptySchema, rb, rb),
               [eager |-> eager, verbose |-> FALSE, whitespaces |-> "false"],
               NoFlags)

SpecSignatures == InitSignatures /\ [][Next]_vars

-----------------------------------------------------------------------------
(* compare called again and again on the same two Diff objects *)

MaxCalls == 2

\* no routine, or the routine r1 without parameters, its body written with
\* a space or with a space and a newline
PlainRoutineMaps ==
    {<<>>} \cup {<< <<"r1", RoutineEntry(d, <<>>)>> >> : d \in RoutineDefinitions}

\* a database of the table t with an index, the routine r1 both procedure
\* and function
RepeatDocuments ==
    {WithRoutines(S, r, r) : S \in DriftingTables, r \in PlainRoutineMaps}

InitRepeat ==
    \E A \in RepeatDocuments, B \in RepeatDocuments, eager \in BOOLEAN,
       whitespaces \in {"true", "false", NoValue} :
        Loaded(A, B, [eager |-> eager, verbose |-> FALSE, whitespaces |-> whitespaces],
               NoFlags)

\* the routine definitions of the objects replaced by what the comparator
\* compares: a fault that writes valueA back into the document
NormalizedRoutines(routines, co) ==
    Obj([i \in 1..Len(routines.o) |->
            <<routines.o[i][1],
              RoutineEntry(PropValue(Get(routines.o[i][2], "definition"), co),
                           Get(routines.o[i][2], "parameters").o)>>])

\* A.compare(B) that leaves the normalized definitions in A.schema
CompareAB_InPlace ==
    /\ pc = "loaded"
    /\ Len(calls) < MaxCalls
    /\ calls' = Append(calls, [fn |-> "A.compare(B)",
                               diff |-> compare(schemaA, schemaB, options),
                               nodiffKeys |-> <<>>])
    /\ schemaA' = [schemaA EXCEPT
                      !.procedures = NormalizedRoutines(@, options),
                      !.functions = NormalizedRoutines(@, options)]
    /\ UNCHANGED <<schemaB, options, cliOpts, pc, diff, written, printed,
                   exitCode, callArgs, returned, args, catalog, loads, error, awaiter>>

\* A.compare(B), called once more: it reads the two schemas and returns a
\* new list
CompareAB ==
    /\ pc = "loaded"
    /\ Len(calls) < MaxCalls
    /\ calls' = Append(calls, [fn |-> "A.compare(B)",
                               diff |-> compare(schemaA, schemaB, options),
                               nodiffKeys |-> <<>>])
    /\ UNCHANGED <<schemaA, schemaB, options, cliOpts, pc, diff, written, printed,
                   exitCode, callArgs, returned, args, catalog, loads, error, awaiter>>

\* B.compare(A), called once more
CompareBA ==
    /\ pc = "loaded"
    /\ Len(calls) < MaxCalls
    /\ calls' = Append(calls, [fn |-> "B.compare(A)",
                               diff |-> compare(schemaB, schemaA, options),
                               nodiffKeys |-> <<>>])
    /\ UNCHANGED <<schemaA, schemaB, options, cliOpts, pc, diff, written, printed,
                   exitCode, callArgs, returned, args, catalog, loads, error, awaiter>>

\* the call of compareSchemaObjects that compares the bodies of the procedure
\* r1, made once more
CompareBodies ==
    /\ pc = "loaded"
    /\ Len(calls) < MaxCalls
    /\ LET r == compareSchemaObjects("procedure",
                    Get(schemaA.procedures, "r1"), Get(schemaB.procedures, "r1"),
                    Options("definition", "r1", NoValue, options.whitespaces))
       IN  calls' = Append(calls, [fn |-> "compareSchemaObjects",
                                   diff |-> r.diff,
                                   nodiffKeys |-> r.nodiffKeys])
    /\ UNCHANGED <<schemaA, schemaB, options, cliOpts, pc, diff, written, printed,
                   exitCode, callArgs, returned, args, catalog, loads, error, awaiter>>

NextRepeat == CompareAB \/ CompareBA \/ CompareBodies

SpecRepeat == InitRepeat /\ [][NextRepeat]_vars

-----------------------------------------------------------------------------
(* The compare action of the CLI from its start: the two URLs, the two      *)
(* connections, and the two loads, which run concurrently between awaits    *)

MaxLoadTables == 1

\* what URL.parse gives for an argument: null ("invalid"), or a URL of the
\* supported protocol or of another one
Protocols == {"invalid", "mysql:", "postgres:"}

\* the catalog of a database of the first n tables, each of the column id
\* and without index, with or without the routine r1, which is then both a
\* procedure and a function
CatalogOf(n, routines) ==
    [tables |-> Obj([i \in 1..n |-> <<TableNameList[i], TableEntry("InnoDB", IdColumn)>>]),
     indexes |-> Obj([i \in 1..n |-> <<TableNameList[i], Obj(<<>>)>>]),
     procedures |-> Obj(routines),
     functions |-> Obj(routines)]

Catalogs ==
    {CatalogOf(n, r) : n \in 0..MaxLoadTables,
                       r \in {<<>>, << <<"r1", RoutineEntry(Str(<<"BEGIN", " ", "END">>), <<>>)>> >>}}

\* a promise of load before the action has called it
NotCalled == [status |-> "none", queries |-> 0]

\* the queries load awaits one after the other on a catalog: getTables, then
\* getColumns and getIndexes of each table, getStoredProcedures, the
\* parameters of each procedure, getFunctions, the parameters of each function
QueryCount(doc) ==
    3 + 2 * Len(doc.tables.o) + Len(doc.procedures.o) + Len(doc.functions.o)

\* the smaller of two numbers, and the number or zero when it is negative
AtMost(n, max) == IF n < max THEN n ELSE max
AtLeastZero(n) == IF n < 0 THEN 0 ELSE n

\* this.schema when load has been answered k queries: a table and its
\* indexes are set after the getIndexes of the table, a procedure or function
\* after the query of its parameters
SchemaAfter(doc, k) ==
    LET nT == Len(doc.tables.o)
        nP == Len(doc.procedures.o)
        nF == Len(doc.functions.o)
        tables == AtMost(AtLeastZero(k - 1) \div 2, nT)
        procedures == AtMost(AtLeastZero(k - (2 * nT + 2)), nP)
        functions == AtMost(AtLeastZero(k - (2 * nT + nP + 3)), nF)
    IN  [tables |-> Obj(SubSeq(doc.tables.o, 1, tables)),
         indexes |-> Obj(SubSeq(doc.indexes.o, 1, tables)),
         procedures |-> Obj(SubSeq(doc.procedures.o, 1, procedures)),
         functions |-> Obj(SubSeq(doc.functions.o, 1, functions))]

\* the command is called with two URLs on two databases
InitLoad ==
    \E url1 \in Protocols, url2 \in Protocols, A \in Catalogs, B \in Catalogs,
       test \in BOOLEAN, outfile \in BOOLEAN :
        /\ args = <<url1, url2>>
        /\ catalog = [A |-> A, B |-> B]
        /\ loads = [A |-> NotCalled, B |-> NotCalled]
        /\ error = "none"
        /\ pc = "start"
        /\ schemaA = EmptySchema
        /\ schemaB = EmptySchema
        /\ options = [eager |-> FALSE, verbose |-> FALSE, whitespaces |-> "false"]
        /\ cliOpts = [NoFlags EXCEPT !.test = test, !.outfile = outfile]
        /\ diff = <<>>
        /\ written = <<>>
        /\ printed = <<>>
        /\ exitCode = "none"
        /\ callArgs = NoCall
        /\ returned = NoReturn
        /\ calls = NoCalls
        /\ awaiter = NoAwaiter

\* a start that makes the two connections without looking at the URLs
Start_Unchecked ==
    /\ pc = "start"
    /\ pc' = "loading"
    /\ printed' = Append(printed, Console("log", [message |-> "checking"]))
    /\ loads' = [A |-> [status |-> "pending", queries |-> 0],
                 B |-> [status |-> "pending", queries |-> 0]]
    /\ UNCHANGED <<schemaA, schemaB, options, cliOpts, diff, written, exitCode,
                   callArgs, returned, calls, args, catalog, error, awaiter>>

\* the action up to its await: URL.parse of the two arguments, the three
\* checks and createConnection, each of which throws, then the log and the
\* calls A.load() and B.load()
Start ==
    /\ pc = "start"
    /\ IF args[1] = "invalid" \/ args[2] = "invalid"
       THEN /\ error' = "invalid url"
            /\ pc' = "failed"
            /\ UNCHANGED <<printed, loads>>
       ELSE IF args[1] # args[2]
       THEN /\ error' = "protocol mismatch"
            /\ pc' = "failed"
            /\ UNCHANGED <<printed, loads>>
       ELSE IF args[1] # "mysql:"
       THEN /\ error' = "not supported"
            /\ pc' = "failed"
            /\ UNCHANGED <<printed, loads>>
       ELSE /\ pc' = "loading"
            /\ printed' = Append(printed, Console("log", [message |-> "checking"]))
            /\ loads' = [A |-> [status |-> "pending", queries |-> 0],
                         B |-> [status |-> "pending", queries |-> 0]]
            /\ UNCHANGED error
    /\ UNCHANGED <<schemaA, schemaB, options, cliOpts, diff, written, exitCode,
                   callArgs, returned, calls, args, catalog, awaiter>>

\* a query of the load of one side is answered: the load runs to its next
\* await, setting what it has read in its own schema, or returns
QueryDone ==
    \E side \in {"A", "B"} :
        /\ pc \in {"loading", "failed"}
        /\ loads[side].status = "pending"
        /\ LET k == loads[side].queries + 1
               last == k = QueryCount(catalog[side])
               schema == SchemaAfter(catalog[side], k)
           IN  /\ loads' = [loads EXCEPT
                               ![side] = [status |-> IF last THEN "resolved" ELSE "pending",
                                          queries |-> k]]
               /\ IF side = "A"
                  THEN schemaA' = schema /\ UNCHANGED schemaB
                  ELSE schemaB' = schema /\ UNCHANGED schemaA
        /\ UNCHANGED <<options, cliOpts, pc, diff, written, printed, exitCode,
                       callArgs, returned, calls, args, catalog, error, awaiter>>

\* a query of the load of one side fails: raw throws and the load rejects
QueryFails ==
    \E side \in {"A", "B"} :
        /\ pc \in {"loading", "failed"}
        /\ loads[side].status = "pending"
        /\ loads' = [loads EXCEPT ![side].status = "rejected"]
        /\ UNCHANGED <<schemaA, schemaB, options, cliOpts, pc, diff, written, printed,
                       exitCode, callArgs, returned, calls, args, catalog, error, awaiter>>

\* an await that goes on as soon as one of the two loads has resolved
LoadsResolved_First ==
    /\ pc = "loading"
    /\ \E side \in {"A", "B"} : loads[side].status = "resolved"
    /\ pc' = "loaded"
    /\ UNCHANGED <<schemaA, schemaB, options, cliOpts, diff, written, printed, exitCode,
                   callArgs, returned, calls, args, catalog, loads, error, awaiter>>

\* await Promise.all([A.load(), B.load()]) when both have resolved
LoadsResolved ==
    /\ pc = "loading"
    /\ \A side \in {"A", "B"} : loads[side].status = "resolved"
    /\ pc' = "loaded"
    /\ UNCHANGED <<schemaA, schemaB, options, cliOpts, diff, written, printed, exitCode,
                   callArgs, returned, calls, args, catalog, loads, error, awaiter>>

\* await Promise.all([A.load(), B.load()]) when one has rejected: the await
\* throws and the action is rejected
LoadsRejected ==
    /\ pc = "loading"
    /\ \E side \in {"A", "B"} : loads[side].status = "rejected"
    /\ pc' = "failed"
    /\ error' = "query failed"
    /\ UNCHANGED <<schemaA, schemaB, options, cliOpts, diff, written, printed, exitCode,
                   callArgs, returned, calls, args, catalog, loads, awaiter>>

NextLoad ==
    \/ Start
    \/ QueryDone
    \/ QueryFails
    \/ LoadsResolved
    \/ LoadsRejected
    \/ Compare
    \/ Output
    \/ Exit

SpecLoad == InitLoad /\ [][NextLoad]_vars

-----------------------------------------------------------------------------
(* Tables of several storage engines *)

\* row.ENGINE of getTables: the engine of a table, null for a view
EngineValues == {Tok("InnoDB"), Tok("MyISAM"), Null}

\* a database of the table t of this engine, its column id of this default,
\* with these indexes
EngineTable(engine, default, indexes) ==
    [EmptySchema EXCEPT
        !.tables = Obj(<< <<"t", Obj(<< <<"engine", engine>>,
                                       <<"columns", Obj(<< <<"id", ColumnRow("id", default, 1)>> >>)>> >>)>> >>),
        !.indexes = Obj(<< <<"t", Obj(indexes)>> >>)]

EngineDocuments ==
    {EmptySchema}
        \cup {EngineTable(e, d, x) :
                e \in EngineValues, d \in {Tok("0"), Tok("1")}, x \in OneIndexMaps}

InitEngines ==
    \E A \in EngineDocuments, B \in EngineDocuments, eager \in BOOLEAN :
        Loaded(A, B, [eager |-> eager, verbose |-> FALSE, whitespaces |-> "false"],
               NoFlags)

SpecEngines == InitEngines /\ [][Next]_vars

-----------------------------------------------------------------------------
(* The test helper awaiter, polling for the file the command writes under   *)
(* -o while the action of the command runs.  Times are in tenths of a       *)
(* second.                                                                  *)

MaxInterval == 2

MaxTimeout == 4

\* a test: program.parse([... "-o", output ...]) under NODE_ENV=test on two
\* databases without tables, then awaiter(output, interval, timeout)
InitAwaiter ==
    \E ra \in {<<>>, << <<"r1", RoutineEntry(Str(<<"BEGIN", " ", "END">>), <<>>)>> >>},
       rb \in {<<>>, << <<"r1", RoutineEntry(Str(<<"BEGIN", " ", "END">>), <<>>)>> >>},
       interval \in 0..MaxInterval, timeout \in 0..MaxTimeout :
        /\ args = Supported
        /\ catalog = [A |-> CatalogOf(0, ra), B |-> CatalogOf(0, rb)]
        /\ loads = [A |-> NotCalled, B |-> NotCalled]
        /\ error = "none"
        /\ pc = "start"
        /\ schemaA = EmptySchema
        /\ schemaB = EmptySchema
        /\ options = [eager |-> FALSE, verbose |-> FALSE, whitespaces |-> "false"]
        /\ cliOpts = [NoFlags EXCEPT !.test = TRUE, !.outfile = TRUE, !.pretty = TRUE]
        /\ diff = <<>>
        /\ written = <<>>
        /\ printed = <<>>
        /\ exitCode = "none"
        /\ callArgs = NoCall
        /\ returned = NoReturn
        /\ calls = NoCalls
        /\ awaiter = [status |-> "polling", interval |-> interval, timeout |-> timeout,
                      iter |-> 0, data |-> <<>>]

\* one call of awaiter(path, interval, timeout, iter): it throws when iter
\* === timeout; when the file is not there it waits and returns
\* awaiter(path, timeout, iter + interval), whose third argument takes the
\* default 0; else it returns the parsed content of the file
Poll ==
    /\ pc # "start"
    /\ awaiter.status = "polling"
    /\ IF awaiter.iter = awaiter.timeout
       THEN awaiter' = [awaiter EXCEPT !.status = "timedout"]
       ELSE IF written = <<>>
       THEN awaiter' = [awaiter EXCEPT !.interval = awaiter.timeout,
                                       !.timeout = awaiter.iter + awaiter.interval,
                                       !.iter = 0]
       ELSE awaiter' = [awaiter EXCEPT !.status = "returned",
                                       !.data = <<written[Len(written)]>>]
    /\ UNCHANGED <<schemaA, schemaB, options, cliOpts, pc, diff, written, printed,
                   exitCode, callArgs, returned, calls, args, catalog, loads, error>>

NextAwaiter ==
    \/ Start
    \/ QueryDone
    \/ QueryFails
    \/ LoadsResolved
    \/ LoadsRejected
    \/ Compare
    \/ Output
    \/ Exit
    \/ Poll

SpecAwaiter == InitAwaiter /\ [][NextAwaiter]_vars

\* program.parse runs the action up to its await at once, and the timer of
\* delay fires: the start of the action and a call of awaiter that can take
\* its step take it.  Nothing makes a database answer.
SpecAwaiterFair == SpecAwaiter /\ WF_vars(Start) /\ WF_vars(Poll)

-----------------------------------------------------------------------------
(* compareSchemaObjects called on its own *)

MaxProps == 2

PropNameList == <<"type", "default", "columns">>

\* the nested objects a property can hold: a mapping of none or of one name
NestedValues == {Obj(<<>>), Obj(<<<<"id", Tok("0")>>>>), Obj(<<<<"id", Tok("1")>>>>)}

\* the value of a property: null, a string, or a nested object
PropValues == {Null, Tok("0"), Tok("1"), Obj(<<>>), Obj(<<<<"id", Tok("0")>>>>)}

\* the objects of some of the first MaxProps property names, in this order,
\* each with any value
PropObjects ==
    UNION {{Obj([i \in 1..Cardinality(S) |->
                    <<PropNameList[Ascending(S)[i]], v[i]>>]) :
                v \in [1..Cardinality(S) -> PropValues]} :
           S \in SUBSET (1..MaxProps)}

\* the options the passes call compareSchemaObjects with: none, the owner,
\* or the name of one object with its owner and the remarks mismatch
CallOptions ==
    {NoOptions,
     Options("t", NoValue, NoValue, NoValue),
     Options("t", "c", "mismatch", NoValue)}

\* compareSchemaObjects is about to be called with an object or undefined on
\* either side, the keys of B in either order
InitCall ==
    \E A \in PropObjects \cup {Undefined}, B \in PropObjects \cup {Undefined},
       opts \in CallOptions, backwards \in BOOLEAN :
        /\ callArgs = [objectType |-> "table.column",
                   A |-> A,
                   B |-> IF backwards /\ B # Undefined THEN Reversed(B) ELSE B,
                   opts |-> opts]
        /\ returned = NoReturn
        /\ pc = "call"
        /\ schemaA = EmptySchema
        /\ schemaB = EmptySchema
        /\ options = [eager |-> FALSE, verbose |-> FALSE, whitespaces |-> "false"]
        /\ cliOpts = NoFlags
        /\ diff = <<>>
        /\ written = <<>>
        /\ printed = <<>>
        /\ exitCode = "none"
        /\ calls = NoCalls
        /\ args = Supported
        /\ catalog = [A |-> EmptySchema, B |-> EmptySchema]
        /\ loads = [A |-> Resolved, B |-> Resolved]
        /\ error = "none"
        /\ awaiter = NoAwaiter

\* const [diff, nodiffKeys] = compareSchemaObjects(objectType, _A, _B, options)
CallCompareSchemaObjects ==
    /\ pc = "call"
    /\ returned' = compareSchemaObjects(callArgs.objectType, callArgs.A, callArgs.B,
                                     callArgs.opts)
    /\ pc' = "return"
    /\ UNCHANGED <<schemaA, schemaB, options, cliOpts, diff, written, printed,
                   exitCode, callArgs, calls, args, catalog, loads, error, awaiter>>

NextCall == CallCompareSchemaObjects

SpecCall == InitCall /\ [][NextCall]_vars

-----------------------------------------------------------------------------
(* Vocabulary of the properties *)

\* the result of A.compare(B) is in diff
Compared == pc # "loaded"

\* a value without the order of its keys
RECURSIVE Canon(_)
Canon(v) ==
    [t |-> v.t, s |-> v.s,
     o |-> {<<v.o[i][1], Canon(v.o[i][2])>> : i \in 1..Len(v.o)}]

\* the two schema documents hold the same objects with the same field values
SameSchema(A, B) ==
    /\ Canon(A.tables) = Canon(B.tables)
    /\ Canon(A.indexes) = Canon(B.indexes)
    /\ Canon(A.procedures) = Canon(B.procedures)
    /\ Canon(A.functions) = Canon(B.functions)

TablesOf(schema) == KeySet(schema.tables.o)

CommonTables == TablesOf(schemaA) \cap TablesOf(schemaB)

ColumnsOf(schema, table) == Get(Get(schema.tables, table), "columns")

ColumnNamesOf(schema, table) == KeySet(ColumnsOf(schema, table).o)

\* the columns of table that one side has and the other has not
MissingColumnsOf(table) ==
    (ColumnNamesOf(schemaA, table) \ ColumnNamesOf(schemaB, table))
        \cup (ColumnNamesOf(schemaB, table) \ ColumnNamesOf(schemaA, table))

CommonColumnsOf(table) ==
    ColumnNamesOf(schemaA, table) \cap ColumnNamesOf(schemaB, table)

\* the columns both sides have, with a field value that differs
DifferingColumnsOf(table) ==
    {c \in CommonColumnsOf(table) :
        Canon(Get(ColumnsOf(schemaA, table), c))
            # Canon(Get(ColumnsOf(schemaB, table), c))}

\* the Comparisons of the result with this objectType and owner
DiffsOf(objectType, owner) ==
    SelectSeq(diff, LAMBDA c : c.objectType = objectType /\ c.in = owner)

Comparison(objectType, name, in, a, b) ==
    [objectType |-> objectType, name |-> name, in |-> in, A |-> a, B |-> b]

Reported(c) == \E i \in 1..Len(diff) : diff[i] = c

Min(a, b) == IF a < b THEN a ELSE b

-----------------------------------------------------------------------------
(* C1: whenever the two loaded schema documents differ, A.compare(B) is not *)
(* empty, for both values of eager.                                         *)
C1_DriftDetected ==
    (Compared /\ ~SameSchema(schemaA, schemaB)) => Len(diff) > 0

(* C5: for every table of both documents and every column that exactly one  *)
(* side has, the result holds the table.column Comparison of that column,   *)
(* owner the table, missing on the side that lacks it and exist on the      *)
(* other.                                                                   *)
C5_MissingColumnReported ==
    Compared =>
        \A table \in CommonTables : \A c \in MissingColumnsOf(table) :
            Reported(Comparison("table.column", c, table,
                IF c \in ColumnNamesOf(schemaA, table) THEN "exist" ELSE "missing",
                IF c \in ColumnNamesOf(schemaB, table) THEN "exist" ELSE "missing"))

(* C6: a table of both documents with exactly two missing columns and no    *)
(* other difference yields exactly one table.column Comparison when eager   *)
(* is false and exactly two when eager is true.                             *)
C6_TwoMissingColumns ==
    Compared =>
        \A table \in CommonTables :
            (Cardinality(MissingColumnsOf(table)) = 2
                /\ DifferingColumnsOf(table) = {})
            => Len(DiffsOf("table.column", table)) = (IF options.eager THEN 2 ELSE 1)

(* C7: with eager false, a table with a missing column and a column whose   *)
(* field values differ gets the Comparisons of its missing columns only,    *)
(* none of them mismatch/mismatch.                                          *)
C7_OnlyMissingWhenNotEager ==
    (Compared /\ ~options.eager) =>
        \A table \in CommonTables :
            (MissingColumnsOf(table) # {} /\ DifferingColumnsOf(table) # {})
            => LET d == DiffsOf("table.column", table)
               IN  /\ Len(d) > 0
                   /\ \A i \in 1..Len(d) :
                        /\ d[i].name \in MissingColumnsOf(table)
                        /\ <<d[i].A, d[i].B>> \in
                               {<<"missing", "exist">>, <<"exist", "missing">>}

(* C8: a table without missing columns, d of whose columns differ in a      *)
(* field, gets min(1, d) table.column Comparisons when eager is false and d *)
(* when eager is true, each the mismatch/mismatch of one differing column.  *)
C8_MismatchCount ==
    Compared =>
        \A table \in CommonTables :
            MissingColumnsOf(table) = {}
            => LET d == DiffsOf("table.column", table)
                   n == Cardinality(DifferingColumnsOf(table))
               IN  /\ Len(d) = (IF options.eager THEN n ELSE Min(1, n))
                   /\ \A i \in 1..Len(d) :
                        /\ d[i].name \in DifferingColumnsOf(table)
                        /\ d[i].A = "mismatch"
                        /\ d[i].B = "mismatch"
                   /\ \A i, j \in 1..Len(d) : d[i].name = d[j].name => i = j

(* C9: with every column checked (eager), a column of both sides gets a     *)
(* mismatch Comparison if and only if one of its field values differs, null *)
(* being a value like any other.                                            *)
C9_ScalarEquality ==
    (Compared /\ options.eager) =>
        \A table \in CommonTables : \A c \in CommonColumnsOf(table) :
            Reported(Comparison("table.column", c, table, "mismatch", "mismatch"))
                <=> c \in DifferingColumnsOf(table)

(* C2: the result holds a Comparison of objectType table and name t if and  *)
(* only if exactly one of the two documents has the table t; there is then  *)
(* one such Comparison, exist on the side that has t and missing on the     *)
(* other.                                                                   *)
C2_TableDifference ==
    Compared =>
        \A t \in TableNames :
            LET d == SelectSeq(diff, LAMBDA c : c.objectType = "table" /\ c.name = t)
                inA == t \in TablesOf(schemaA)
                inB == t \in TablesOf(schemaB)
            IN  IF inA # inB
                THEN /\ Len(d) = 1
                     /\ d[1].A = (IF inA THEN "exist" ELSE "missing")
                     /\ d[1].B = (IF inB THEN "exist" ELSE "missing")
                ELSE Len(d) = 0

\* compared: a table only A has, a table only B has
C2_Witness ==
    /\ Compared
    /\ TablesOf(schemaA) \ TablesOf(schemaB) # {}
    /\ TablesOf(schemaB) \ TablesOf(schemaA) # {}
    /\ \E i \in 1..Len(diff) : diff[i].objectType = "table"

IndexesOf(schema, table) == OrEmpty(Get(schema.indexes, table))

IndexNamesOf(schema, table) == KeySet(IndexesOf(schema, table).o)

IndexColumnsOf(schema, table, index) ==
    OrEmpty(Get(IndexesOf(schema, table), index))

\* the columns of the index on both sides whose sequence numbers differ
MismatchedSequences(table, index) ==
    {c \in KeySet(IndexColumnsOf(schemaA, table, index).o)
            \cap KeySet(IndexColumnsOf(schemaB, table, index).o) :
        Get(Get(IndexColumnsOf(schemaA, table, index), c), "sequence_no")
            # Get(Get(IndexColumnsOf(schemaB, table, index), c), "sequence_no")}

\* how many index Comparisons of result name this index of this table
IndexCount(result, table, index) ==
    Len(SelectSeq(result, LAMBDA c :
            c.objectType = "index" /\ c.in = table /\ c.name = index))

\* the result of the same comparison under the other setting of eager
OtherEager ==
    compare(schemaA, schemaB, [options EXCEPT !.eager = ~options.eager])

(* C10: the result holds at most one index Comparison for every table and   *)
(* index name, as many as under the other setting of eager; an index of a   *)
(* table whose index names agree on both sides, with two or more columns of *)
(* mismatched sequence numbers, has exactly one, mismatch on both sides.    *)
C10_OneIndexComparison ==
    Compared =>
        \A table \in CommonTables :
            \A index \in IndexNamesOf(schemaA, table)
                            \cup IndexNamesOf(schemaB, table) :
                /\ IndexCount(diff, table, index) <= 1
                /\ IndexCount(diff, table, index)
                        = IndexCount(OtherEager, table, index)
                /\ (/\ IndexNamesOf(schemaA, table) = IndexNamesOf(schemaB, table)
                    /\ Cardinality(MismatchedSequences(table, index)) >= 2)
                    => /\ IndexCount(diff, table, index) = 1
                       /\ Reported(Comparison("index", index, table,
                                              "mismatch", "mismatch"))

(* C4: outside NODE_ENV=test the command exits with code 1 when the result  *)
(* of A.compare(B) is not empty and with code 0 when it is empty, whatever  *)
(* the flags -o, -p, -t and -a; no exit code is set before that.            *)
C4_ExitCode ==
    /\ pc = "exited" =>
        /\ ~cliOpts.test
        /\ exitCode = (IF Len(compare(schemaA, schemaB, options)) > 0
                       THEN "1" ELSE "0")
    /\ pc # "exited" => exitCode = "none"

\* the command has failed on a difference with all output flags given
C4_Witness ==
    /\ pc = "exited"
    /\ exitCode = "1"
    /\ cliOpts.outfile /\ cliOpts.outTable /\ cliOpts.pretty /\ cliOpts.all
    /\ Len(written) = 1

(* C3: when the two documents hold the same tables, columns, indexes, index *)
(* columns, routines and parameters with equal field values, the result of  *)
(* A.compare(B) is empty, for every setting of eager and whitespaces.       *)
C3_SameIsEmpty ==
    (Compared /\ SameSchema(schemaA, schemaB)) => diff = <<>>

\* two documents of the same objects in a different order were compared
C3_Witness ==
    /\ Compared
    /\ SameSchema(schemaA, schemaB)
    /\ schemaA # schemaB
    /\ Len(schemaA.indexes.o) > 0
    /\ diff = <<>>

\* the indexes of table, on both sides, whose column names or column rows
\* differ
DifferingIndexesOf(table) ==
    {index \in IndexNamesOf(schemaA, table) \cap IndexNamesOf(schemaB, table) :
        Canon(IndexColumnsOf(schemaA, table, index))
            # Canon(IndexColumnsOf(schemaB, table, index))}

(* C11: for a table of both documents with the same index names on both    *)
(* sides, every index whose column names or column rows differ has exactly  *)
(* one index Comparison in the result, whatever the other indexes of the    *)
(* table and their order.                                                   *)
C11_EveryDifferingIndex ==
    Compared =>
        \A table \in CommonTables :
            IndexNamesOf(schemaA, table) = IndexNamesOf(schemaB, table) =>
                \A index \in DifferingIndexesOf(table) :
                    IndexCount(diff, table, index) = 1

\* the indexes of table that only this side has
IndexesOnlyIn(side, otherSide, table) ==
    IndexNamesOf(side, table) \ IndexNamesOf(otherSide, table)

\* the result holds an index Comparison of this table with mismatch remarks
IndexMismatchIn(result, table) ==
    \E i \in 1..Len(result) :
        /\ result[i].objectType = "index"
        /\ result[i].in = table
        /\ result[i].A = "mismatch"

(* C12: when a table of both documents has an index name on one side only, *)
(* the result holds exactly one index Comparison per such name, exist on    *)
(* the side that has it and missing on the other, owner the table, and no   *)
(* mismatch index Comparison of that table; under the other setting of      *)
(* eager as well.                                                           *)
C12_MissingIndexes ==
    Compared =>
        \A table \in CommonTables :
            (IndexNamesOf(schemaA, table) # IndexNamesOf(schemaB, table)) =>
                /\ \A index \in IndexesOnlyIn(schemaA, schemaB, table) :
                    /\ IndexCount(diff, table, index) = 1
                    /\ Reported(Comparison("index", index, table, "exist", "missing"))
                /\ \A index \in IndexesOnlyIn(schemaB, schemaA, table) :
                    /\ IndexCount(diff, table, index) = 1
                    /\ Reported(Comparison("index", index, table, "missing", "exist"))
                /\ ~IndexMismatchIn(diff, table)
                /\ DiffsOf("index", table)
                       = SelectSeq(OtherEager, LAMBDA c :
                                      c.objectType = "index" /\ c.in = table)

\* an index that only A has was reported while another index of the table,
\* on both sides, has different columns
C12_Witness ==
    /\ Compared
    /\ IndexesOnlyIn(schemaA, schemaB, "t") # {}
    /\ DifferingIndexesOf("t") # {}
    /\ Len(DiffsOf("index", "t")) = 1

\* the tables that exactly one document has
TablesOnOneSide ==
    (TablesOf(schemaA) \cup TablesOf(schemaB)) \ CommonTables

(* C13: a table that only one document has is the name of exactly one table *)
(* Comparison, and no table.column or index Comparison of the result has    *)
(* such a table as its owner, whatever indexes the document holds for it.   *)
C13_NothingBeneathMissingTable ==
    Compared =>
        /\ \A table \in TablesOnOneSide :
            Len(SelectSeq(diff, LAMBDA c :
                    c.objectType = "table" /\ c.name = table)) = 1
        /\ \A i \in 1..Len(diff) :
            diff[i].objectType \in {"table.column", "index"}
                => diff[i].in \in CommonTables

\* a table that only A has, with an index, was compared
C13_Witness ==
    /\ Compared
    /\ \E table \in TablesOf(schemaA) \ TablesOf(schemaB) :
        /\ IndexNamesOf(schemaA, table) # {}
        /\ Reported(Comparison("table", table, NoValue, "exist", "missing"))

\* the pass that emits the Comparisons of an objectType: 1 tables, 2 indexes,
\* 3 procedures, 4 functions
PassOf(objectType) ==
    CASE objectType \in {"table", "table.column"} -> 1
      [] objectType = "index" -> 2
      [] objectType \in {"procedure", "procedure.parameter"} -> 3
      [] objectType \in {"function", "function.parameter"} -> 4

(* C14: in the result, the Comparisons of the tables and their columns come *)
(* before those of the indexes, which come before those of the procedures   *)
(* and their parameters, which come before those of the functions and their *)
(* parameters.                                                              *)
C14_PassOrder ==
    Compared =>
        \A i, j \in 1..Len(diff) :
            i < j => PassOf(diff[i].objectType) <= PassOf(diff[j].objectType)

\* a result with Comparisons of all four passes
C14_Witness ==
    /\ Compared
    /\ \A pass \in 1..4 :
        \E i \in 1..Len(diff) : PassOf(diff[i].objectType) = pass

\* the characters after the whitespace the sequence starts with
RECURSIVE DropSpace(_)
DropSpace(chars) ==
    IF chars # <<>> /\ Head(chars) \in Whitespace
    THEN DropSpace(Tail(chars))
    ELSE chars

\* the characters with every run of whitespace as one space
RECURSIVE Squeeze(_)
Squeeze(chars) ==
    IF chars = <<>> THEN <<>>
    ELSE IF Head(chars) \in Whitespace
    THEN <<" ">> \o Squeeze(DropSpace(chars))
    ELSE <<Head(chars)>> \o Squeeze(Tail(chars))

\* schema.procedures or schema.functions
RoutinesOf(schema, kind) ==
    IF kind = "procedure" THEN schema.procedures ELSE schema.functions

CommonRoutines(kind) ==
    KeySet(RoutinesOf(schemaA, kind).o) \cap KeySet(RoutinesOf(schemaB, kind).o)

DefinitionOf(schema, kind, routine) ==
    Get(Get(RoutinesOf(schema, kind), routine), "definition")

\* the two definitions of the routine differ, and only in runs of whitespace
OnlyWhitespaceDiffers(kind, routine) ==
    /\ DefinitionOf(schemaA, kind, routine) # DefinitionOf(schemaB, kind, routine)
    /\ Squeeze(DefinitionOf(schemaA, kind, routine).s)
           = Squeeze(DefinitionOf(schemaB, kind, routine).s)

\* how many Comparisons of the result are about the definition of the routine
DefinitionCount(kind, routine) ==
    Len(SelectSeq(diff, LAMBDA c :
            c.objectType = kind /\ c.name = routine /\ c.in = "definition"))

(* C15: for a procedure or function of both documents whose definitions     *)
(* differ only in runs of whitespace, the result holds no definition        *)
(* Comparison when whitespaces is false or the command ran without -w, and  *)
(* exactly one when the command ran with -w.                                *)
C15_WhitespaceInsensitive ==
    Compared =>
        \A kind \in {"procedure", "function"} :
            \A routine \in CommonRoutines(kind) :
                OnlyWhitespaceDiffers(kind, routine) =>
                    /\ (options.whitespaces = "false" \/ ~cliOpts.w)
                            => DefinitionCount(kind, routine) = 0
                    /\ cliOpts.w => DefinitionCount(kind, routine) = 1

\* the two definitions of the routine differ as strings: as they are when
\* whitespaces is true, and with their whitespace squeezed when not
DefinitionsDiffer(kind, routine) ==
    IF options.whitespaces = "true"
    THEN DefinitionOf(schemaA, kind, routine) # DefinitionOf(schemaB, kind, routine)
    ELSE Squeeze(DefinitionOf(schemaA, kind, routine).s)
             # Squeeze(DefinitionOf(schemaB, kind, routine).s)

\* the places in result of the Comparisons of the parameters of the routine
ParameterPlaces(result, kind, routine) ==
    {i \in 1..Len(result) :
        result[i].objectType = kind \o ".parameter" /\ result[i].in = routine}

\* the places in result of the Comparisons of the definition of the routine
DefinitionPlaces(result, kind, routine) ==
    {i \in 1..Len(result) :
        result[i] = Comparison(kind, routine, "definition", "mismatch", "mismatch")}

(* C16: for every procedure and function of both documents whose            *)
(* definitions differ, the result holds exactly one Comparison of the       *)
(* routine with owner "definition", mismatch on both sides, before the      *)
(* Comparisons of the parameters of the routine, whatever the parameters,   *)
(* and under the other setting of eager as well.                            *)
C16_DefinitionMismatch ==
    Compared =>
        \A kind \in {"procedure", "function"} :
            \A routine \in CommonRoutines(kind) :
                DefinitionsDiffer(kind, routine) =>
                    /\ DefinitionCount(kind, routine) = 1
                    /\ Cardinality(DefinitionPlaces(diff, kind, routine)) = 1
                    /\ Cardinality(DefinitionPlaces(OtherEager, kind, routine)) = 1
                    /\ \A i \in DefinitionPlaces(diff, kind, routine) :
                        \A j \in ParameterPlaces(diff, kind, routine) : i < j

\* a routine with another body and other parameters was compared
C16_Witness ==
    /\ Compared
    /\ DefinitionsDiffer("procedure", "r1")
    /\ DefinitionsDiffer("function", "r1")
    /\ Cardinality(ParameterPlaces(diff, "procedure", "r1")) >= 2
    /\ Cardinality(ParameterPlaces(diff, "function", "r1")) >= 2

ParametersOf(schema, kind, routine) ==
    OrEmpty(Get(Get(RoutinesOf(schema, kind), routine), "parameters"))

ParameterNamesOf(schema, kind, routine) ==
    KeySet(ParametersOf(schema, kind, routine).o)

\* the parameters of the routine that this side has and the other has not
ParametersOnlyIn(side, otherSide, kind, routine) ==
    ParameterNamesOf(side, kind, routine) \ ParameterNamesOf(otherSide, kind, routine)

\* the parameters of the routine on both sides with a field that differs
DifferingParameters(kind, routine) ==
    {p \in ParameterNamesOf(schemaA, kind, routine)
            \cap ParameterNamesOf(schemaB, kind, routine) :
        Canon(Get(ParametersOf(schemaA, kind, routine), p))
            # Canon(Get(ParametersOf(schemaB, kind, routine), p))}

\* the Comparisons of the result about this parameter of the routine
ParameterDiffs(kind, routine, param) ==
    SelectSeq(diff, LAMBDA c :
        c.objectType = kind \o ".parameter" /\ c.in = routine /\ c.name = param)

\* the mismatch Comparisons of the result about parameters of the routine
ParameterMismatches(kind, routine) ==
    SelectSeq(diff, LAMBDA c :
        c.objectType = kind \o ".parameter" /\ c.in = routine /\ c.A = "mismatch")

(* C17: for a routine of both documents, every parameter that one side      *)
(* lacks is reported once, missing on that side and exist on the other;     *)
(* when there is one and eager is false no parameter mismatch is reported;  *)
(* otherwise, of the d parameters of both sides with a differing field,     *)
(* min(1, d) are reported as mismatch when eager is false and d when true.  *)
C17_ParameterDifferences ==
    Compared =>
        \A kind \in {"procedure", "function"} :
            \A routine \in CommonRoutines(kind) :
                LET onlyA == ParametersOnlyIn(schemaA, schemaB, kind, routine)
                    onlyB == ParametersOnlyIn(schemaB, schemaA, kind, routine)
                    d == Cardinality(DifferingParameters(kind, routine))
                    mismatches == Len(ParameterMismatches(kind, routine))
                IN  /\ \A p \in onlyA :
                        ParameterDiffs(kind, routine, p)
                            = <<Comparison(kind \o ".parameter", p, routine,
                                           "exist", "missing")>>
                    /\ \A p \in onlyB :
                        ParameterDiffs(kind, routine, p)
                            = <<Comparison(kind \o ".parameter", p, routine,
                                           "missing", "exist")>>
                    /\ IF onlyA \cup onlyB # {} /\ ~options.eager
                       THEN mismatches = 0
                       ELSE mismatches = (IF options.eager THEN d ELSE Min(1, d))

\* with eager, a procedure with a parameter that A lacks and a parameter that
\* differs was compared, and both were reported
C17_Witness ==
    /\ Compared
    /\ options.eager
    /\ ParametersOnlyIn(schemaB, schemaA, "procedure", "r1") # {}
    /\ Cardinality(DifferingParameters("procedure", "r1")) = 1
    /\ Len(ParameterMismatches("procedure", "r1")) = 1

\* the Comparisons of the result that the pass of this kind of routine emits
RoutinePass(kind) ==
    SelectSeq(diff, LAMBDA c : c.objectType \in {kind, kind \o ".parameter"})

\* a Comparison of the procedure pass with the objectType of the function pass
AsFunction(c) ==
    [c EXCEPT !.objectType =
        IF @ = "procedure" THEN "function" ELSE "function.parameter"]

(* C18: when in both documents the functions are the same mapping as the    *)
(* procedures, the Comparisons of the function pass are those of the        *)
(* procedure pass with procedure read as function and procedure.parameter   *)
(* as function.parameter, one by one in the same order.                     *)
C18_SamePass ==
    (/\ Compared
     /\ schemaA.functions = schemaA.procedures
     /\ schemaB.functions = schemaB.procedures)
        => RoutinePass("function")
               = [i \in 1..Len(RoutinePass("procedure")) |->
                     AsFunction(RoutinePass("procedure")[i])]

\* routines that differ in body and parameters were compared as procedures
\* and as functions
C18_Witness ==
    /\ Compared
    /\ schemaA.functions = schemaA.procedures
    /\ schemaB.functions = schemaB.procedures
    /\ DefinitionCount("function", "r1") = 1
    /\ Len(RoutinePass("function")) >= 3
    /\ Len(RoutinePass("procedure")) >= 3

\* the call of compareSchemaObjects on its own has returned
Returned == pc = "return"

\* the keys of the two objects of the call in the order they are iterated
CallProps == AllProps(OrEmpty(callArgs.A), OrEmpty(callArgs.B))

\* one side lacks the key, or the two values of the key are scalars that
\* differ
KeyDiffers(key) ==
    LET a == Get(OrEmpty(callArgs.A), key)
        b == Get(OrEmpty(callArgs.B), key)
    IN  \/ a = Undefined
        \/ b = Undefined
        \/ a.t # "object" /\ b.t # "object" /\ a # b

\* the places, in the order of iteration, of the keys that differ
DifferingPlaces == {i \in 1..Len(CallProps) : KeyDiffers(CallProps[i])}

EqualKeys == {returned.nodiffKeys[i] : i \in 1..Len(returned.nodiffKeys)}

(* C19: a call with options.name returns one difference at most, named      *)
(* options.name, and no key iterated after the first key that differs is    *)
(* among the equal keys.                                                    *)
C19_StopsAtFirstDifference ==
    (Returned /\ callArgs.opts.name # NoValue) =>
        /\ Len(returned.diff) <= 1
        /\ \A i \in 1..Len(returned.diff) :
            returned.diff[i].name = callArgs.opts.name
        /\ \A first \in DifferingPlaces :
            \A i \in (first + 1)..Len(CallProps) : CallProps[i] \notin EqualKeys

\* the keys of the two objects of the call, an absent object having none
CallKeys == KeySet(OrEmpty(callArgs.A).o) \cup KeySet(OrEmpty(callArgs.B).o)

\* how many of the returned differences have this name
NamedCount(key) ==
    Len(SelectSeq(returned.diff, LAMBDA c : c.name = key))

(* C20: a call without options.name classifies every key of the two objects *)
(* once: a key that one side lacks or whose two scalar values differ is the *)
(* name of exactly one returned difference and not an equal key, every      *)
(* other key is an equal key and the name of no difference, and the         *)
(* differences and the equal keys together are as many as the keys.         *)
C20_EveryKeyOnce ==
    (Returned /\ callArgs.opts.name = NoValue) =>
        /\ \A key \in CallKeys :
            IF KeyDiffers(key)
            THEN NamedCount(key) = 1 /\ key \notin EqualKeys
            ELSE NamedCount(key) = 0 /\ key \in EqualKeys
        /\ Len(returned.diff) + Len(returned.nodiffKeys) = Cardinality(CallKeys)
        /\ Len(returned.nodiffKeys) = Cardinality(EqualKeys)

\* the keys both objects of the call have, with a nested mapping on both
\* sides
NestedKeys ==
    {key \in CallKeys :
        /\ Get(OrEmpty(callArgs.A), key).t = "object"
        /\ Get(OrEmpty(callArgs.B), key).t = "object"}

\* the object with the property key given the value v, the keys in place
Put(obj, key, v) ==
    Obj([i \in 1..Len(obj.o) |->
            IF obj.o[i][1] = key THEN <<key, v>> ELSE obj.o[i]])

\* the object without the property key
Without(obj, key) ==
    Obj(SelectSeq(obj.o, LAMBDA p : p[1] # key))

\* the place of the key in the order of iteration
PlaceOf(key) == CHOOSE i \in 1..Len(CallProps) : CallProps[i] = key

\* the loop of the call reaches the key: the call has no options.name, or no
\* key iterated before this one differs
Reached(key) ==
    \/ callArgs.opts.name = NoValue
    \/ \A i \in DifferingPlaces : i > PlaceOf(key)

\* the differences of the call are those of the call without the key, and
\* the call returns the same with any two nested mappings under the key
NestedIgnored(key) ==
    /\ returned.diff =
           compareSchemaObjects(callArgs.objectType,
               Without(OrEmpty(callArgs.A), key),
               Without(OrEmpty(callArgs.B), key), callArgs.opts).diff
    /\ \A a \in NestedValues, b \in NestedValues :
           compareSchemaObjects(callArgs.objectType,
               Put(OrEmpty(callArgs.A), key, a),
               Put(OrEmpty(callArgs.B), key, b), callArgs.opts) = returned

(* C21 as stated: every key that holds a nested mapping on both sides is an *)
(* equal key of the call, no returned difference is for it, and the call    *)
(* returns the same whatever the two nested mappings hold.                  *)
C21_NestedAlwaysEqualKey ==
    Returned =>
        \A key \in NestedKeys : key \in EqualKeys /\ NestedIgnored(key)

(* C21: a key that holds a nested mapping on both sides is an equal key of  *)
(* the call whenever the loop reaches it (no options.name, or no differing  *)
(* key before it), no returned difference is for it, and the call returns   *)
(* the same whatever the two nested mappings hold.                          *)
C21_DepthOne ==
    Returned =>
        \A key \in NestedKeys :
            /\ Reached(key) => key \in EqualKeys
            /\ NestedIgnored(key)

\* a call without options.name has returned one difference for another key
\* and the equal key of two nested mappings of different contents
C21_Witness ==
    /\ Returned
    /\ callArgs.opts.name = NoValue
    /\ \E key \in NestedKeys :
        /\ Get(callArgs.A, key) # Get(callArgs.B, key)
        /\ key \in EqualKeys
    /\ Len(returned.diff) = 1

BadArguments ==
    \/ args[1] = "invalid"
    \/ args[2] = "invalid"
    \/ args[1] # args[2]
    \/ args[1] # "mysql:"

\* a query has failed during one of the loads
LoadRejected == \E side \in {"A", "B"} : loads[side].status = "rejected"

\* the console has been given an output, which holds the comparison result
ResultLogged ==
    \E i \in 1..Len(printed) : "result" \in DOMAIN printed[i].arg

(* C23: when a URL is unparsable, the protocols differ, the protocol is not *)
(* supported or a query of a load has failed, compare is not invoked:       *)
(* nothing is compared, written or printed as a result, the exit code is    *)
(* not 0, and once the action has left its first steps it has failed with   *)
(* an error.                                                                *)
C23_FailsBeforeCompare ==
    /\ (BadArguments \/ LoadRejected) =>
            /\ pc \in {"start", "loading", "failed"}
            /\ diff = <<>>
            /\ written = <<>>
            /\ ~ResultLogged
            /\ exitCode # "0"
    /\ (BadArguments /\ pc # "start") => pc = "failed"
    /\ pc = "failed" => error # "none"

\* the action has failed on a query of the load of A while the load of B
\* went on to its end
C23_Witness ==
    /\ pc = "failed"
    /\ error = "query failed"
    /\ loads.A.status = "rejected"
    /\ loads.A.queries > 0
    /\ loads.B.status = "resolved"
    /\ schemaB # EmptySchema

\* a step of the load of this side: one more query answered
LoadStep(side) == loads'[side].queries = loads[side].queries + 1

(* C24: compare is invoked only when both loads have resolved and each      *)
(* schema is the whole of what its catalog holds, its result being that of  *)
(* the two whole documents; and a step that changes the schema of one side  *)
(* is a step of the load of that side, which leaves the other side alone.   *)
C24_CompareAfterBothLoads ==
    [][/\ (pc' = "compared" /\ pc # "compared") =>
            /\ loads.A.status = "resolved"
            /\ loads.B.status = "resolved"
            /\ schemaA = catalog.A
            /\ schemaB = catalog.B
            /\ diff' = compare(catalog.A, catalog.B, options)
       /\ schemaA' # schemaA =>
            LoadStep("A") /\ loads'.B = loads.B /\ schemaB' = schemaB
       /\ schemaB' # schemaB =>
            LoadStep("B") /\ loads'.A = loads.A /\ schemaA' = schemaA]_vars

\* compare has found differences between two documents, loaded through
\* several queries each
C24_Witness ==
    /\ pc = "compared"
    /\ Len(diff) > 0
    /\ loads.A.queries > 3
    /\ loads.B.queries > 3
    /\ schemaA # schemaB

\* the two remarks a Comparison can hold together
RemarkPairs ==
    {<<"missing", "exist">>, <<"exist", "missing">>, <<"mismatch", "mismatch">>}

\* the pairs of remarks of the result
PairsOf(result) == {<<result[i].A, result[i].B>> : i \in 1..Len(result)}

(* C25: every Comparison of a compare result holds (missing, exist),        *)
(* (exist, missing) or (mismatch, mismatch) as its remarks of A and B.      *)
C25_RemarkPairs ==
    Compared => PairsOf(diff) \subseteq RemarkPairs

\* a result that holds a column of another default, an index of other
\* columns, which the call reports with the remarks it was given, and a
\* procedure that only B has
C25_Witness ==
    /\ Compared
    /\ Reported(Comparison("table.column", "id", "t", "mismatch", "mismatch"))
    /\ Reported(Comparison("index", "ix", "t", "mismatch", "mismatch"))
    /\ IndexColumnsOf(schemaA, "t", "ix") # IndexColumnsOf(schemaB, "t", "ix")
    /\ \E i \in 1..Len(diff) :
        diff[i].objectType = "procedure" /\ diff[i].A = "missing" /\ diff[i].B = "exist"

\* the object a Comparison is about
TripleOf(c) == <<c.objectType, c.in, c.name>>

(* C26: no two Comparisons of a compare result are about the same object:   *)
(* their triples of objectType, owner and name differ, eager or not.        *)
C26_NoObjectTwice ==
    Compared =>
        \A i \in 1..Len(diff), j \in 1..Len(diff) :
            TripleOf(diff[i]) = TripleOf(diff[j]) => i = j

\* an eager result on the routine r1 whose parameter p_1 is of another type
\* at another position on the two sides, A lacking the parameter p_0 and the
\* bodies differing: one Comparison for each, as procedure and as function
C26_Witness ==
    /\ Compared
    /\ options.eager
    /\ "p_0" \in ParametersOnlyIn(schemaB, schemaA, "procedure", "r1")
    /\ Get(Get(ParametersOf(schemaA, "procedure", "r1"), "p_1"), "type") = Tok("int")
    /\ Get(Get(ParametersOf(schemaB, "procedure", "r1"), "p_1"), "type") = Tok("varchar")
    /\ Len(ParameterDiffs("procedure", "r1", "p_1")) = 1
    /\ Len(ParameterDiffs("function", "r1", "p_1")) = 1
    /\ Len(diff) = 6

\* the first sequence is the second with some of its elements left out
RECURSIVE IsSubsequence(_, _)
IsSubsequence(short, long) ==
    IF short = <<>> THEN TRUE
    ELSE IF long = <<>> THEN FALSE
    ELSE IF Head(short) = Head(long)
    THEN IsSubsequence(Tail(short), Tail(long))
    ELSE IsSubsequence(short, Tail(long))

\* what A.compare(B) returns on the two documents with this value of eager,
\* all else as it is
ResultWhenEager(eager) ==
    compare(schemaA, schemaB, [options EXCEPT !.eager = eager])

(* C27: on the same two documents and the same whitespaces, the result      *)
(* without eager is a subsequence of the result with eager, and the one is  *)
(* empty exactly when the other is.                                         *)
C27_EagerOnlyAdds ==
    pc = "compared" =>
        LET other == ResultWhenEager(~options.eager)
            without == IF options.eager THEN other ELSE diff
            with == IF options.eager THEN diff ELSE other
        IN  /\ IsSubsequence(without, with)
            /\ without = <<>> <=> with = <<>>

\* the routine r1 lacks a parameter on one side and has another of another
\* type: a result without eager that eager makes longer
C27_Witness ==
    /\ Compared
    /\ ~options.eager
    /\ Len(diff) > 0
    /\ Len(ResultWhenEager(TRUE)) > Len(diff)
    /\ ParametersOnlyIn(schemaB, schemaA, "procedure", "r1") # {}
    /\ DifferingParameters("procedure", "r1") # {}

\* what B.compare(A) returns on the two documents
ResultBackwards == compare(schemaB, schemaA, options)

\* the Comparisons of a result as a set, and with the remarks of A and B
\* exchanged
ReportsOf(result) == {result[i] : i \in 1..Len(result)}

SwappedReportsOf(result) ==
    {[result[i] EXCEPT !.A = result[i].B, !.B = result[i].A] : i \in 1..Len(result)}

(* C28: B.compare(A) is empty exactly when A.compare(B) is, and it reports  *)
(* the same objects as A.compare(B), with the remarks of A and B exchanged. *)
C28_Symmetric ==
    pc = "compared" =>
        /\ diff = <<>> <=> ResultBackwards = <<>>
        /\ ReportsOf(ResultBackwards) = SwappedReportsOf(diff)

\* the document with this engine for every table
WithEngine(schema, engine) ==
    [schema EXCEPT
        !.tables = Obj([i \in 1..Len(schema.tables.o) |->
            <<schema.tables.o[i][1],
              Obj(<< <<"engine", engine>>,
                     <<"columns", Get(schema.tables.o[i][2], "columns")>> >>)>>])]

\* the engine of the table t of the document
EngineOf(schema) == Get(Get(schema.tables, "t"), "engine")

(* C29: two documents that differ in the engine of a table only compare as  *)
(* equal, and the result of compare is the same whatever the engines of the *)
(* tables of the two documents are.                                         *)
C29_EngineIgnored ==
    pc = "compared" =>
        /\ WithEngine(schemaA, Null) = WithEngine(schemaB, Null) => diff = <<>>
        /\ \A a \in EngineValues, b \in EngineValues :
               compare(WithEngine(schemaA, a), WithEngine(schemaB, b), options) = diff

\* the table t is an InnoDB table in A and a MyISAM table in B, all else the
\* same, and the result is empty
C29_Witness ==
    /\ pc = "compared"
    /\ EngineOf(schemaA) = Tok("InnoDB")
    /\ EngineOf(schemaB) = Tok("MyISAM")
    /\ WithEngine(schemaA, Null) = WithEngine(schemaB, Null)
    /\ Len(IndexesOf(schemaA, "t").o) > 0
    /\ diff = <<>>

\* awaiter has thrown 'timedout' or returned the content of the file
AwaiterDone == awaiter.status \in {"timedout", "returned"}

\* a retry of awaiter: the next call is given the same interval and timeout,
\* and the elapsed time grown by the interval
RetryCarries ==
    (awaiter.status = "polling" /\ awaiter'.status = "polling" /\ awaiter' # awaiter) =>
        /\ awaiter'.interval = awaiter.interval
        /\ awaiter'.timeout = awaiter.timeout
        /\ awaiter'.iter = awaiter.iter + awaiter.interval

(* C30: awaiter terminates: in every run it throws 'timedout' or returns    *)
(* the parsed content of the file, so it does not poll for ever when the    *)
(* file never appears; and each retry is given the interval and the timeout *)
(* unchanged, and the elapsed time grown by the interval.                   *)
C30_AwaiterTerminates ==
    /\ <>AwaiterDone
    /\ [][RetryCarries]_vars
    /\ [](awaiter.status = "returned" => awaiter.data = written)

=============================================================================
